---- MODULE Spec2Model ----
(***************************************************************************)
(* Voice-to-text bot with meeting-protocol generation.                     *)
(*                                                                         *)
(* Text is modelled character by character: a string is a sequence of      *)
(* one-character tokens.  Cyrillic letters are written by their Latin      *)
(* transliteration ("ch" is the single letter che, "V" the capital ve);    *)
(* "NL" is the newline character.  A token starting with "@" stands for a  *)
(* fixed phrase of the source (boilerplate of a template or of a reply):   *)
(* it is neither a digit, a letter, white space nor a period.              *)
(***************************************************************************)
EXTENDS Integers, Sequences, FiniteSets, TLC

\* ------------------------------------------------------------------------
\* Characters and strings
\* ------------------------------------------------------------------------

Digit == {"0", "1", "2", "3", "4", "5", "6", "7", "8", "9"}

Space == {" ", "NL"}

CyrLowerSeq ==
    <<"a", "b", "v", "g", "d", "e", "zh", "z", "i", "j", "k", "l", "m", "n",
      "o", "p", "r", "s", "t", "u", "f", "h", "c", "ch", "sh", "sch", "hard",
      "y", "soft", "eh", "yu", "ya">>

CyrUpperSeq ==
    <<"A", "B", "V", "G", "D", "E", "ZH", "Z", "I", "J", "K", "L", "M", "N",
      "O", "P", "R", "S", "T", "U", "F", "H", "C", "CH", "SH", "SCH", "HARD",
      "Y", "SOFT", "EH", "YU", "YA">>

Range(f) == {f[k] : k \in DOMAIN f}

CyrLower == Range(CyrLowerSeq)

CyrUpper == Range(CyrUpperSeq)

\* \w of the re module: letters, digits and the underscore.
Word == CyrLower \cup CyrUpper \cup Digit \cup {"yo", "_"}

\* [a-ya] under re.IGNORECASE: the 32 letters of the range in both cases.
CyrRange == CyrLower \cup CyrUpper

\* str.lower() of one character.
LowerChar(c) ==
    IF c \in CyrUpper
    THEN CyrLowerSeq[CHOOSE k \in DOMAIN CyrUpperSeq : CyrUpperSeq[k] = c]
    ELSE c

Lower(s) == [k \in DOMAIN s |-> LowerChar(s[k])]

Min(a, b) == IF a < b THEN a ELSE b

\* s[i..j] of the source, 1-based and inclusive here; empty when j < i.
Slice(s, i, j) == IF j < i THEN <<>> ELSE SubSeq(s, i, j)

\* The number of consecutive characters of s from position i on that are in cs.
RECURSIVE RunLen(_, _, _)
RunLen(s, i, cs) ==
    IF i > Len(s) \/ s[i] \notin cs THEN 0 ELSE 1 + RunLen(s, i + 1, cs)

\* The number of consecutive characters of s from position i on not in cs.
RECURSIVE RunLenNot(_, _, _)
RunLenNot(s, i, cs) ==
    IF i > Len(s) \/ s[i] \in cs THEN 0 ELSE 1 + RunLenNot(s, i + 1, cs)

\* str.strip(): leading and trailing white space removed.
RECURSIVE StripRight(_)
StripRight(s) ==
    IF s = <<>> \/ s[Len(s)] \notin Space THEN s
    ELSE StripRight(SubSeq(s, 1, Len(s) - 1))

Strip(s) ==
    LET lead == RunLen(s, 1, Space)
    IN  StripRight(Slice(s, lead + 1, Len(s)))

\* str.split(sep) for a one-character separator: always at least one part.
RECURSIVE Split(_, _)
\* The split of s whose first part has n characters.
SplitAfter(s, sep, n) ==
    IF n = Len(s) THEN <<s>>
    ELSE <<Slice(s, 1, n)>> \o Split(Slice(s, n + 2, Len(s)), sep)

Split(s, sep) == SplitAfter(s, sep, RunLenNot(s, 1, {sep}))

\* sep.join(parts)
RECURSIVE Join(_, _)
Join(parts, sep) ==
    IF parts = <<>> THEN <<>>
    ELSE IF Len(parts) = 1 THEN parts[1]
    ELSE parts[1] \o sep \o Join(Tail(parts), sep)

\* s.startswith(p), case-sensitively, from position i.
StartsAt(s, i, p) ==
    /\ i + Len(p) - 1 <= Len(s)
    /\ \A k \in 1..Len(p) : s[i + k - 1] = p[k]

\* The same under re.IGNORECASE (p is given in lower case).
StartsAtNoCase(s, i, p) ==
    /\ i + Len(p) - 1 <= Len(s)
    /\ \A k \in 1..Len(p) : LowerChar(s[i + k - 1]) = p[k]

\* The elements of a sequence longer than n, in order.
RECURSIVE KeepLong(_, _)
KeepLong(parts, n) ==
    IF parts = <<>> THEN <<>>
    ELSE (IF Len(parts[1]) > n THEN <<parts[1]>> ELSE <<>>)
             \o KeepLong(Tail(parts), n)

\* ------------------------------------------------------------------------
\* Wall clock: seconds since 01.01.2026 00:00:00 (all model times lie in
\* January 2026).
\* ------------------------------------------------------------------------

DigitSeq == <<"0", "1", "2", "3", "4", "5", "6", "7", "8", "9">>

TwoDigits(n) == <<DigitSeq[((n \div 10) % 10) + 1], DigitSeq[(n % 10) + 1]>>

\* datetime.now().strftime("%d.%m.%Y")
DateStr(t) ==
    TwoDigits((t \div 86400) + 1) \o <<".", "0", "1", ".", "2", "0", "2", "6">>

\* datetime.now().strftime("%Y%m%d_%H%M%S")
TimestampStr(t) ==
    <<"2", "0", "2", "6", "0", "1">> \o TwoDigits((t \div 86400) + 1) \o <<"_">>
        \o TwoDigits((t % 86400) \div 3600)
        \o TwoDigits((t % 3600) \div 60)
        \o TwoDigits(t % 60)

\* ------------------------------------------------------------------------
\* ProtocolGenerator._basic_protocol_formatting: the rule-based fallback
\* ------------------------------------------------------------------------

NoMatch == [found |-> FALSE, text |-> <<>>]

Matched(t) == [found |-> TRUE, text |-> t]

\* The least element of a non-empty set of numbers.
Least(S) == CHOOSE h \in S : \A g \in S : h <= g

\* m.group(...) if m else d
GroupOr(m, d) == IF m.found THEN m.text ELSE d

\* The first match of a sequence of attempts, in their order.
FirstFound(ms) ==
    IF \E i \in DOMAIN ms : ms[i].found
    THEN ms[Least({i \in DOMAIN ms : ms[i].found})] ELSE NoMatch

\* \d{1,2}\s+\w+ anchored at position i: the length matched, 0 for no match.
\* Each quantifier is greedy; a shorter choice never lets the rest match.
DateWordsOf(nd, ns, nw) ==
    IF nd >= 1 /\ ns >= 1 /\ nw >= 1 THEN nd + ns + nw ELSE 0

DateWordsAfter(s, i, nd, ns) ==
    DateWordsOf(nd, ns, RunLen(s, i + nd + ns, Word))

DateWordsFrom(s, i, nd) == DateWordsAfter(s, i, nd, RunLen(s, i + nd, Space))

DateWordsLen(s, i) == DateWordsFrom(s, i, Min(2, RunLen(s, i, Digit)))

\* \d{1,2}\.\d{1,2}\.\d{2,4} anchored at position i: the length matched.
DateDottedOf(s, i, d1, d2, d3) ==
    IF /\ d1 >= 1 /\ StartsAt(s, i + d1, <<".">>)
       /\ d2 >= 1 /\ StartsAt(s, i + d1 + 1 + d2, <<".">>)
       /\ d3 >= 2
    THEN d1 + 1 + d2 + 1 + d3 ELSE 0

DateDottedAfter(s, i, d1, d2) ==
    DateDottedOf(s, i, d1, d2, Min(4, RunLen(s, i + d1 + 1 + d2 + 1, Digit)))

DateDottedFrom(s, i, d1) ==
    DateDottedAfter(s, i, d1, Min(2, RunLen(s, i + d1 + 1, Digit)))

DateDottedLen(s, i) == DateDottedFrom(s, i, Min(2, RunLen(s, i, Digit)))

\* The alternation at position i: the first alternative that matches wins.
FirstPositive(a, b) == IF a > 0 THEN a ELSE b

DateLenAt(s, i) == FirstPositive(DateWordsLen(s, i), DateDottedLen(s, i))

\* The match of n characters at position i, if n is positive.
DateMatch(s, i, n) == IF n > 0 THEN Matched(Slice(s, i, i + n - 1)) ELSE NoMatch

DateAt(s, i) == DateMatch(s, i, DateLenAt(s, i))

\* re.search(r'\d{1,2}\s+\w+|\d{1,2}\.\d{1,2}\.\d{2,4}', s): leftmost match.
DateSearch(s) == FirstFound([i \in 1..Len(s) |-> DateAt(s, i)])

TopicStems ==
    <<<<"v", "s", "t", "r", "e", "ch">>,
      <<"s", "o", "v", "e", "sch", "a", "n", "i">>,
      <<"o", "b", "s", "u", "zh", "d", "e", "n", "i">>>>

TopicPrepositions == <<<<"p", "o">>, <<"o">>, <<"o", "b">>, <<"s">>>>

\* (?:po|o|ob|s)\s+([^\.]+) anchored at position j, with preposition number k:
\* group 2.  When the white space runs up to a period or the end, \s+ gives
\* its last character back to the group.
TopicClauseOf(s, from, ns, rest) ==
    IF ns < 1 THEN NoMatch
    ELSE IF rest >= 1 THEN Matched(Slice(s, from, from + rest - 1))
    ELSE IF ns >= 2 THEN Matched(<<s[from - 1]>>)
    ELSE NoMatch

TopicClauseAfter(s, from, ns) ==
    TopicClauseOf(s, from + ns, ns, RunLenNot(s, from + ns, {"."}))

TopicClauseWith(s, j, prep) ==
    IF ~StartsAtNoCase(s, j, prep) THEN NoMatch
    ELSE TopicClauseAfter(s, j + Len(prep), RunLen(s, j + Len(prep), Space))

TopicClauseAt(s, j, k) == TopicClauseWith(s, j, TopicPrepositions[k])

\* The alternatives (?:po|o|ob|s) in their order: the first that matches.
TopicClause(s, j) ==
    FirstFound([k \in DOMAIN TopicPrepositions |-> TopicClauseAt(s, j, k)])

\* [a-ya]+\s+ from position p, then the preposition and the clause.
TopicTailOf(s, p, nl, ns) ==
    IF nl < 1 \/ ns < 1 THEN NoMatch ELSE TopicClause(s, p + nl + ns)

TopicTailAfter(s, p, nl) == TopicTailOf(s, p, nl, RunLen(s, p + nl, Space))

TopicTail(s, p) == TopicTailAfter(s, p, RunLen(s, p, CyrRange))

\* The whole topic pattern anchored at position i, for stem number m.
TopicStemWith(s, i, stem) ==
    IF ~StartsAtNoCase(s, i, stem) THEN NoMatch ELSE TopicTail(s, i + Len(stem))

TopicStemAt(s, i, m) == TopicStemWith(s, i, TopicStems[m])

TopicAt(s, i) == FirstFound([m \in DOMAIN TopicStems |-> TopicStemAt(s, i, m)])

\* re.search(r'(vstrech[a-ya]+|soveschani[a-ya]+|obsuzhdeni[a-ya]+)\s+
\*            (?:po|o|ob|s)\s+([^\.]+)', s, re.IGNORECASE): group 2.
TopicSearch(s) == FirstFound([i \in 1..Len(s) |-> TopicAt(s, i)])

DefaultTopic ==
    <<"O", "b", "s", "u", "zh", "d", "e", "n", "i", "e", " ",
      "p", "r", "o", "e", "k", "t", "a">>

\* meeting_date
MeetingDate(transcription, t) == GroupOr(DateSearch(transcription), DateStr(t))

\* topic
StripMatch(m) == [m EXCEPT !.text = Strip(m.text)]

MeetingTopic(transcription) ==
    GroupOr(StripMatch(TopicSearch(transcription)), DefaultTopic)

\* lines: the stripped fragments between periods longer than 10 characters.
StripAll(parts) == [k \in DOMAIN parts |-> Strip(parts[k])]

AgendaLines(transcription) == KeepLong(StripAll(Split(transcription, ".")), 10)

\* A slice that takes one line more: lines[:6].
FirstFiveTakesSix(lines) == Slice(lines, 1, Min(6, Len(lines)))

\* lines[:5]
FirstFive(lines) == Slice(lines, 1, Min(5, Len(lines)))

\* f"{i}. {line}." for i, line in enumerate(lines, 1)
Numbered(lines) ==
    [k \in DOMAIN lines |-> <<DigitSeq[k + 1], ".", " ">> \o lines[k] \o <<".">>]

\* questions: the first five lines, numbered from 1.
Questions(transcription) == Numbered(FirstFive(AgendaLines(transcription)))

NL == <<"NL">>

Decisions ==
    <<"1", ".", " ", "@prepare-documentation", "NL",
      "2", ".", " ", "@agree-deadlines", "NL",
      "3", ".", " ", "@appoint-responsible", "NL">>

\* The f-string of the protocol.
BasicProtocolFormatting(transcription, t) ==
    <<"#", " ", "@protocol-of-meeting-of", " ">> \o MeetingDate(transcription, t)
        \o NL \o NL
        \o <<"#", "#", " ", "@topic", ":", " ">> \o MeetingTopic(transcription)
        \o NL \o NL
        \o <<"#", "#", " ", "@agenda", ":">> \o NL \o NL
        \o Join(Questions(transcription), NL)
        \o NL \o NL
        \o <<"#", "#", " ", "@discussion", ":">> \o NL \o NL
        \o transcription
        \o NL \o NL
        \o <<"#", "#", " ", "@decisions", ":">> \o NL \o NL
        \o Decisions
        \o NL
        \o <<"@protocol-written-on", ":", " ">> \o DateStr(t) \o NL

\* ------------------------------------------------------------------------
\* Outcomes of a call: a returned value or a raised exception
\* ------------------------------------------------------------------------

Ret(v) == [raised |-> FALSE, exc |-> "", value |-> v]

Raise(e) == [raised |-> TRUE, exc |-> e, value |-> <<>>]

\* Python's None as a value of the model.
None == <<"@None">>

\* ------------------------------------------------------------------------
\* ProtocolGenerator.generate_protocol_text
\* ------------------------------------------------------------------------

\* self.prompt_template.format(transcription=transcription)
Prompt(transcription) == <<"@prompt-head">> \o transcription \o <<"@prompt-tail">>

\* The request of requests.post(f"{ollama_url}/api/generate", json=payload,
\* timeout=60).
GenerateRequest(model_name, transcription) ==
    [method  |-> "POST",
     url     |-> "/api/generate",
     payload |-> [model |-> model_name, prompt |-> Prompt(transcription),
                  stream |-> FALSE],
     timeout |-> 60]

\* requests.post: the reply, or the exception of a failed exchange.
Post(reply) ==
    IF reply.net = "refused" THEN Raise("ConnectionError")
    ELSE IF reply.net = "timeout" THEN Raise("Timeout")
    ELSE Ret(reply.text)

\* The response field as it came, without strip().
ResponseTextAsSent(reply) ==
    IF reply.json = "invalid" THEN Raise("JSONDecodeError")
    ELSE IF reply.json = "array" THEN Raise("AttributeError")
    ELSE IF reply.field = "missing" THEN Ret(<<>>)
    ELSE IF reply.field = "null" THEN Raise("AttributeError")
    ELSE Ret(reply.text)

\* response.json() followed by result.get("response", "").strip()
ResponseText(reply) ==
    IF reply.json = "invalid" THEN Raise("JSONDecodeError")
    ELSE IF reply.json = "array" THEN Raise("AttributeError")
    ELSE IF reply.field = "missing" THEN Ret(Strip(<<>>))
    ELSE IF reply.field = "null" THEN Raise("AttributeError")
    ELSE Ret(Strip(reply.text))

\* if response.status_code == 200: ... else: the basic formatting.
\* response is the outcome of requests.post; fallback is the value of
\* self._basic_protocol_formatting(transcription).
AfterPost(response, reply, fallback) ==
    IF response.raised THEN response
    ELSE IF reply.status = 200 THEN ResponseText(reply)
    ELSE Ret(fallback)

\* The try block of generate_protocol_text.
GenerateTry(reply, fallback) == AfterPost(Post(reply), reply, fallback)

\* A handler that catches only the exceptions of the exchange itself.
GenerateExceptNarrow(body, fallback) ==
    IF body.raised /\ body.exc \in {"ConnectionError", "Timeout"}
    THEN Ret(fallback) ELSE body

\* except Exception as e: return self._basic_protocol_formatting(transcription)
GenerateExcept(body, fallback) == IF body.raised THEN Ret(fallback) ELSE body

\* try ... except around the exchange, for a given value of the fallback.
GenerateWith(reply, fallback) ==
    GenerateExcept(GenerateTry(reply, fallback), fallback)

\* generate_protocol_text(transcription), answered by reply at time t.
GenerateProtocolText(transcription, reply, t) ==
    GenerateWith(reply, BasicProtocolFormatting(transcription, t))

\* ------------------------------------------------------------------------
\* Paths and the file system.  A path is a sequence of tokens: names, the
\* separator "/" and extensions (".pdf" is one token: the four characters).
\* ------------------------------------------------------------------------

\* The position of the last token of p that is in cs, 0 when there is none.
LastIndexOf(p, cs) ==
    IF \E k \in DOMAIN p : p[k] \in cs
    THEN CHOOSE h \in DOMAIN p :
            p[h] \in cs /\ \A g \in DOMAIN p : p[g] \in cs => g <= h
    ELSE 0

Extensions == {".pdf", ".txt", ".ogg", ".wav", ".WAV", ".doc"}

\* os.path.dirname(p) and os.path.basename(p)
DirName(p) == Slice(p, 1, LastIndexOf(p, {"/"}) - 1)

BaseName(p) == Slice(p, LastIndexOf(p, {"/"}) + 1, Len(p))

\* os.path.splitext(b): the name b without its extension, and the extension
\* (empty when the name has none).
StemOf(b, k) == IF k = 0 THEN b ELSE Slice(b, 1, k - 1)

ExtOf(b, k) == IF k = 0 THEN <<>> ELSE Slice(b, k, Len(b))

SplitStem(b) == StemOf(b, LastIndexOf(b, Extensions))

SplitExt(b) == ExtOf(b, LastIndexOf(b, Extensions))

Stem(p) == SplitStem(BaseName(p))

Ext(p) == SplitExt(BaseName(p))

\* os.path.join(d, name)
PathJoin(d, name) == IF d = <<>> THEN name ELSE d \o <<"/">> \o name

\* output_path.replace('.pdf', '.txt'): every occurrence is replaced.
ReplacePdfByTxt(p) == [k \in DOMAIN p |-> IF p[k] = ".pdf" THEN ".txt" ELSE p[k]]

\* The current directory always exists.
DirExists(dirs, d) == d = <<>> \/ d \in dirs

\* open(path, 'w') and the write succeed: the directory is there and the
\* storage takes the data.
CanWrite(dirs, path, env) == DirExists(dirs, DirName(path)) /\ ~env.storageFault

WriteFile(files, path, content) ==
    [q \in (DOMAIN files) \cup {path} |-> IF q = path THEN content ELSE files[q]]

RemoveFile(files, path) == [q \in (DOMAIN files) \ {path} |-> files[q]]

TxtContent(text) == [fmt |-> "txt", text |-> text]

PdfContent(text) == [fmt |-> "pdf", text |-> text]

AudioContent(fmt) == [fmt |-> fmt, text |-> <<>>]

\* ------------------------------------------------------------------------
\* ProtocolGenerator.generate_pdf
\* ------------------------------------------------------------------------

\* Both fonts exist in the fonts directory of the project.
ProjectFonts(env) == env.projRegular /\ env.projBold

\* After the search of the system paths: both font paths exist.
FontsFound(env) ==
    /\ (env.sysRegular \/ env.projRegular)
    /\ (env.sysBold \/ env.projBold)

\* with open(txt_path, 'w') as f: f.write(protocol_text); return txt_path
WriteTo(txt_path, protocol_text, env, files, dirs) ==
    IF CanWrite(dirs, txt_path, env)
    THEN [out |-> Ret(txt_path),
          files |-> WriteFile(files, txt_path, TxtContent(protocol_text))]
    ELSE [out |-> Raise("OSError"), files |-> files]

\* txt_path = output_path.replace('.pdf', '.txt') and the write to it.
WriteTxt(protocol_text, output_path, env, files, dirs) ==
    WriteTo(ReplacePdfByTxt(output_path), protocol_text, env, files, dirs)

\* Lengths on the page are counted in 1/12700 of a point: a millimetre is
\* 72/25.4 points, 36000 units.
Mm(n) == n * 36000

\* FPDF(): an A4 page in portrait, 841.89 points high.
PageHeight == 10692003

\* FPDF(): the left, top and right margins, 28.35 points; the automatic page
\* break leaves twice as much at the bottom.
DefaultMargin == 360045

PageBreakTrigger == PageHeight - 2 * DefaultMargin

\* The number of characters of a paragraph that multi_cell puts on a line.
CharsPerLine == 80

\* pdf.cell(w, h, ..., ln=...): a cell h mm high; ln says whether the
\* position moves below it.
Cell(h, ln) == [cell |-> TRUE, h |-> Mm(h), ln |-> ln]

\* pdf.ln(h)
Ln(h) == [cell |-> FALSE, h |-> Mm(h), ln |-> TRUE]

\* re.match(r'^\d+\.\s', stripped), nd the number of its leading digits.
IsNumberedAfter(stripped, nd) ==
    /\ nd >= 1
    /\ nd + 2 <= Len(stripped)
    /\ stripped[nd + 1] = "."
    /\ stripped[nd + 2] \in Space

IsNumbered(stripped) == IsNumberedAfter(stripped, RunLen(stripped, 1, Digit))

\* pdf.multi_cell(0, 10, line): one cell for each line of the paragraph.
MultiCell(line) == [k \in 1..(((Len(line) - 1) \div CharsPerLine) + 1) |-> Cell(10, TRUE)]

\* The branches on line.strip() in the loop over the lines.
StepsOfStripped(line, stripped) ==
    IF StartsAt(stripped, 1, <<"-", " ">>) THEN <<Cell(10, FALSE), Cell(10, TRUE)>>
    ELSE IF IsNumbered(stripped) THEN <<Cell(10, TRUE)>>
    ELSE IF stripped # <<>> THEN MultiCell(line)
    ELSE <<Ln(5)>>

\* What one line of the protocol text puts on the page.
StepsOfLine(line) ==
    IF StartsAt(line, 1, <<"#", " ">>) THEN <<Cell(10, TRUE), Ln(5)>>
    ELSE IF StartsAt(line, 1, <<"#", "#", " ">>) THEN <<Cell(10, TRUE), Ln(3)>>
    ELSE IF StartsAt(line, 1, <<"#", "#", "#", " ">>) THEN <<Cell(10, TRUE)>>
    ELSE StepsOfStripped(line, Strip(line))

\* for line in lines: the cells and line breaks of all the lines, in order.
RECURSIVE StepsOfLines(_)
StepsOfLines(lines) ==
    IF lines = <<>> THEN <<>>
    ELSE StepsOfLine(lines[1]) \o StepsOfLines(Tail(lines))

\* The page and the vertical position after the steps from number k on.
\* A cell that does not fit above the bottom margin starts a new page first
\* (FPDF.cell: y + h > page_break_trigger); pdf.ln only moves the position.
RECURSIVE Laid(_, _, _, _)
Laid(steps, k, page, y) ==
    IF k > Len(steps) THEN [page |-> page, y |-> y]
    ELSE IF steps[k].cell /\ y + steps[k].h > PageBreakTrigger
    THEN Laid(steps, k + 1, page + 1,
              DefaultMargin + (IF steps[k].ln THEN steps[k].h ELSE 0))
    ELSE Laid(steps, k + 1, page, y + (IF steps[k].ln THEN steps[k].h ELSE 0))

\* pdf.set_y(-15); pdf.cell(0, 10, f"Stranica {pdf.page_no()}", 0, 0, "C")
\* at is the page and position when the loop ended.  The number is read
\* before the cell is placed; the cell, 10 mm high at 15 mm from the bottom,
\* is subject to the automatic page break like every cell.
FooterCell(at) ==
    IF (PageHeight - Mm(15)) + Mm(10) > PageBreakTrigger
    THEN [pages |-> at.page + 1, footerPage |-> at.page + 1,
          footerY |-> DefaultMargin, label |-> at.page]
    ELSE [pages |-> at.page, footerPage |-> at.page,
          footerY |-> PageHeight - Mm(15), label |-> at.page]

\* pdf.add_page(), the loop over protocol_text.split('\n') and the footer:
\* the pages of the document and the place of its page-number cell.
PdfLayout(protocol_text) ==
    FooterCell(Laid(StepsOfLines(Split(protocol_text, "NL")), 1, 1, DefaultMargin))

NoLayout == [pages |-> 0, footerPage |-> 0, footerY |-> 0, label |-> 0]

\* FPDF(), add_font, the layout of the lines, the footer and pdf.output.
RenderPdf(protocol_text, output_path, env, files, dirs) ==
    IF env.renderFault THEN [out |-> Raise("FPDFException"), files |-> files]
    ELSE IF ~CanWrite(dirs, output_path, env)
    THEN [out |-> Raise("OSError"), files |-> files]
    ELSE [out |-> Ret(output_path),
          files |-> WriteFile(files, output_path, PdfContent(protocol_text))]

\* The try block of generate_pdf.
GeneratePdfTry(protocol_text, output_path, env, files, dirs) ==
    IF ~ProjectFonts(env) /\ ~FontsFound(env)
    THEN WriteTxt(protocol_text, output_path, env, files, dirs)
    ELSE RenderPdf(protocol_text, output_path, env, files, dirs)

\* except Exception: the text file; except Exception: return None.
\* body is the outcome of the try block, txt that of the write of the text
\* file; a block that raised has written nothing.
GeneratePdfExcept(body, txt) ==
    IF ~body.out.raised THEN body
    ELSE IF ~txt.out.raised THEN txt
    ELSE [out |-> Ret(None), files |-> body.files]

\* generate_pdf(protocol_text, output_path)
GeneratePdf(protocol_text, output_path, env, files, dirs) ==
    GeneratePdfExcept(GeneratePdfTry(protocol_text, output_path, env, files, dirs),
                      WriteTxt(protocol_text, output_path, env, files, dirs))

\* ------------------------------------------------------------------------
\* ProtocolGenerator.process_voice_transcription
\* ------------------------------------------------------------------------

\* os.makedirs(output_dir, exist_ok=True)
MakeDirs(dirs, d, env) ==
    IF env.mkdirFault THEN [out |-> Raise("OSError"), dirs |-> dirs]
    ELSE [out |-> Ret(d), dirs |-> dirs \cup {d}]

\* f"protocol_{timestamp}.pdf" under output_dir
ProtocolPath(output_dir, t) ==
    PathJoin(output_dir, <<"protocol_">> \o TimestampStr(t) \o <<".pdf">>)

Pair(path, text) == [path |-> path, text |-> text]

\* return result_path, protocol_text -- pdf is the outcome of generate_pdf.
ProcessReturn(protocol_text, pdf, dirs) ==
    IF pdf.out.raised
    THEN [out |-> pdf.out, bound |-> TRUE, text |-> protocol_text,
          files |-> pdf.files, dirs |-> dirs]
    ELSE [out |-> Ret(Pair(pdf.out.value, protocol_text)), bound |-> TRUE,
          text |-> protocol_text, files |-> pdf.files, dirs |-> dirs]

\* protocol_text = ...; pdf_path = ...; result_path = self.generate_pdf(...)
\* gen is the outcome of generate_protocol_text.
ProcessGenerated(gen, output_dir, env, files, dirs, t) ==
    IF gen.raised
    THEN [out |-> gen, bound |-> FALSE, text |-> <<>>,
          files |-> files, dirs |-> dirs]
    ELSE ProcessReturn(gen.value,
                       GeneratePdf(gen.value, ProtocolPath(output_dir, t), env,
                                   files, dirs),
                       dirs)

\* The statements after os.makedirs; mk is its outcome.
ProcessAfterMakeDirs(mk, transcription, output_dir, env, files, t) ==
    IF mk.out.raised
    THEN [out |-> mk.out, bound |-> FALSE, text |-> <<>>,
          files |-> files, dirs |-> mk.dirs]
    ELSE ProcessGenerated(GenerateProtocolText(transcription, env.reply, t),
                          output_dir, env, files, mk.dirs, t)

\* The try block: what it returned or raised, and whether protocol_text was
\* assigned when it ended.
ProcessTry(transcription, output_dir, env, files, dirs, t) ==
    ProcessAfterMakeDirs(MakeDirs(dirs, output_dir, env), transcription,
                         output_dir, env, files, t)

\* except Exception: return None, protocol_text -- reading protocol_text
\* before its assignment raises UnboundLocalError out of the handler.
ProcessExcept(body) ==
    [out   |-> IF ~body.out.raised THEN body.out
               ELSE IF body.bound THEN Ret(Pair(None, body.text))
               ELSE Raise("UnboundLocalError"),
     files |-> body.files,
     dirs  |-> body.dirs]

\* process_voice_transcription(transcription, output_dir)
ProcessVoiceTranscription(transcription, output_dir, env, files, dirs, t) ==
    ProcessExcept(ProcessTry(transcription, output_dir, env, files, dirs, t))

\* ------------------------------------------------------------------------
\* ProtocolGenerator.__init__ and _check_ollama_availability
\* ------------------------------------------------------------------------

\* No generator has been constructed.
NoGenerator == [model_name |-> "", ollama_url |-> "", prompt_template |-> <<>>]

\* _load_prompt_template(): the built-in template, {transcription} inside.
LoadPromptTemplate == <<"@prompt-head", "{transcription}", "@prompt-tail">>

\* model.get("name") for an entry of the list that has no name.
NoName == "@None"

\* requests.get(f"{self.ollama_url}/api/tags", timeout=2)
GetTags(probe) ==
    IF probe.net = "refused" THEN Raise("ConnectionError")
    ELSE IF probe.net = "timeout" THEN Raise("Timeout")
    ELSE Ret(probe.status)

\* models = response.json().get("models", []) and
\* model_names = [model.get("name") for model in models]
ModelNames(probe) ==
    IF probe.json = "invalid" THEN Raise("JSONDecodeError")
    ELSE IF probe.json = "array" THEN Raise("AttributeError")
    ELSE IF probe.models = "missing" THEN Ret(<<>>)
    ELSE IF probe.models = "null" THEN Raise("TypeError")
    ELSE IF probe.models = "strings" THEN Raise("AttributeError")
    ELSE Ret(probe.names)

\* The outcome of the check and the value of self.model_name after it.
Checked(out, model_name) == [out |-> out, model_name |-> model_name]

\* if not model_names: raise; if self.model_name not in model_names: the
\* warning, whose ', '.join(model_names) raises for a name that is None,
\* then self.model_name = model_names[0].
CheckNames(model_name, names) ==
    IF names.raised THEN Checked(names, model_name)
    ELSE IF names.value = <<>> THEN Checked(Raise("Exception"), model_name)
    ELSE IF model_name \in Range(names.value) THEN Checked(Ret(None), model_name)
    ELSE IF NoName \in Range(names.value) THEN Checked(Raise("TypeError"), model_name)
    ELSE Checked(Ret(None), names.value[1])

\* if response.status_code != 200: raise Exception(...)
CheckResponse(model_name, response, probe) ==
    IF response.raised THEN Checked(response, model_name)
    ELSE IF response.value # 200 THEN Checked(Raise("Exception"), model_name)
    ELSE CheckNames(model_name, ModelNames(probe))

\* The try block of _check_ollama_availability.
CheckTry(model_name, probe) == CheckResponse(model_name, GetTags(probe), probe)

\* The subclasses of requests.exceptions.RequestException among the
\* exceptions of the model; the JSONDecodeError of response.json() is one
\* from requests 2.27 on and a plain ValueError before.
RequestExceptions(probe) ==
    {"ConnectionError", "Timeout"}
    \cup (IF probe.lib = "2.27" THEN {"JSONDecodeError"} ELSE {})

\* except requests.exceptions.RequestException as e: raise Exception(...)
CheckExcept(body, probe) ==
    IF body.out.raised /\ body.out.exc \in RequestExceptions(probe)
    THEN Checked(Raise("Exception"), body.model_name)
    ELSE body

\* _check_ollama_availability() for an object whose model_name is given.
CheckOllamaAvailability(model_name, probe) ==
    CheckExcept(CheckTry(model_name, probe), probe)

\* The object after __init__ and what __init__ did.
Constructed(out, warned, model_name, ollama_url) ==
    [out |-> out, warned |-> warned,
     self |-> IF out.raised THEN NoGenerator
              ELSE [model_name |-> model_name, ollama_url |-> ollama_url,
                    prompt_template |-> LoadPromptTemplate]]

\* A constructor that lets the exception of the check out.
InitExceptPropagates(checked, ollama_url) ==
    Constructed(IF checked.out.raised THEN checked.out ELSE Ret(None),
                checked.out.raised, checked.model_name, ollama_url)

\* try: self._check_ollama_availability() except Exception as e: warning
InitExcept(checked, ollama_url) ==
    Constructed(Ret(None), checked.out.raised, checked.model_name, ollama_url)

\* ProtocolGenerator(model_name, ollama_url) with the service answering the
\* probe as given.
ProtocolGeneratorInit(model_name, ollama_url, probe) ==
    InitExcept(CheckOllamaAvailability(model_name, probe), ollama_url)


\* ------------------------------------------------------------------------
\* speech_recognition_engine: construction and the factory
\* ------------------------------------------------------------------------

NoEngine == [kind |-> "none", model |-> ""]

\* str.lower() on the engine kinds of the model.
LowerKind(k) ==
    CASE k \in {"Whisper", "WHISPER"} -> "whisper"
      [] k \in {"Vosk", "VOSK"} -> "vosk"
      [] k = "Sphinx" -> "sphinx"
      [] OTHER -> k

\* WhisperEngine.__init__: a failure of load_model is logged and raised again.
WhisperInit(model_name, env) ==
    IF env.loadFault THEN Raise("RuntimeError")
    ELSE Ret([kind |-> "whisper", model |-> model_name])

\* VoskEngine.__init__
VoskInit(model_path, env) ==
    IF ~env.voskInstalled THEN Raise("ImportError")
    ELSE IF ~env.modelPathExists THEN Raise("FileNotFoundError")
    ELSE IF env.loadFault THEN Raise("Exception")
    ELSE Ret([kind |-> "vosk", model |-> model_path])

\* get_speech_recognition_engine(engine_type, **kwargs)
GetSpeechRecognitionEngine(engine_type, model_name, model_path, env) ==
    IF LowerKind(engine_type) = "whisper" THEN WhisperInit(model_name, env)
    ELSE IF LowerKind(engine_type) = "vosk" THEN VoskInit(model_path, env)
    ELSE Raise("ValueError")

\* The try block at the top of bot.py.
InitSpeechEngineTry(cfg, env) ==
    IF LowerKind(cfg.engine) = "whisper"
    THEN GetSpeechRecognitionEngine("whisper", cfg.whisperModel, "model", env)
    ELSE IF LowerKind(cfg.engine) = "vosk"
    THEN GetSpeechRecognitionEngine("vosk", "tiny", cfg.voskModelPath, env)
    ELSE Raise("ValueError")

\* A handler that logs the failure and goes on without an engine.
InitSpeechEngineExceptSwallows(body) == IF body.raised THEN Ret(NoEngine) ELSE body

\* except Exception as e: logger.error(...); raise
InitSpeechEngineExcept(body) == body

\* bot.py, module level: the engine of the process, or the exception that
\* ends the import of the module.
InitSpeechEngine(cfg, env) == InitSpeechEngineExcept(InitSpeechEngineTry(cfg, env))

\* ------------------------------------------------------------------------
\* speech_recognition_engine: recognition
\* ------------------------------------------------------------------------

\* "Oshibka raspoznavaniya rechi."
FailureSentinel ==
    <<"O", "sh", "i", "b", "k", "a", " ", "r", "a", "s", "p", "o", "z", "n",
      "a", "v", "a", "n", "i", "ya", " ", "r", "e", "ch", "i", ".">>

\* wf.readframes(4000)
FramesPerRead == 4000

NoFeed == [channels |-> 0, rate |-> 0, width |-> 0, reads |-> 0]

\* audio_path.lower().endswith('.wav')
EndsWithWav(path) == path # <<>> /\ path[Len(path)] \in {".wav", ".WAV"}

\* audio_path.rsplit('.', 1)[0] + '.wav'
WavPathOf(path) == StemOf(path, LastIndexOf(path, Extensions)) \o <<".wav">>

\* audio.export(wav_path, format="wav"); audio_path = wav_path
Exported(wav_path, converted, files) ==
    [out |-> Ret(wav_path),
     files |-> WriteFile(files, wav_path, AudioContent("wav")),
     path |-> wav_path, clip |-> converted]

\* AudioSegment.from_file(audio_path), [the conversion], audio.export(wav_path)
\* The conversion is the engine's own: converted is the clip it exports.
ExportWav(audio_path, clip, converted, env, files) ==
    IF audio_path \notin DOMAIN files
    THEN [out |-> Raise("FileNotFoundError"), files |-> files,
          path |-> audio_path, clip |-> clip]
    ELSE IF env.fault = "from_file"
    THEN [out |-> Raise("CouldntDecodeError"), files |-> files,
          path |-> audio_path, clip |-> clip]
    ELSE IF env.fault = "export"
    THEN [out |-> Raise("OSError"), files |-> files,
          path |-> audio_path, clip |-> clip]
    ELSE Exported(WavPathOf(audio_path), converted, files)

\* The file recognition reads: the input itself when it is named *.wav.
Unconverted(audio_path, clip, files) ==
    [out |-> Ret(audio_path), files |-> files, path |-> audio_path, clip |-> clip]

\* if not audio_path.lower().endswith('.wav'): the conversion
ToWav(audio_path, clip, converted, env, files) ==
    IF ~EndsWithWav(audio_path)
    THEN ExportWav(audio_path, clip, converted, env, files)
    ELSE Unconverted(audio_path, clip, files)

\* result = self.model.transcribe(audio_path); return result["text"].strip()
WhisperTranscribe(wav, env) ==
    [out   |-> IF wav.out.raised THEN wav.out
               ELSE IF wav.path \notin DOMAIN wav.files
               THEN Raise("FileNotFoundError")
               ELSE IF env.fault = "decode" THEN Raise("RuntimeError")
               ELSE Ret(Strip(env.heard)),
     files |-> wav.files,
     fed   |-> NoFeed]

\* The try block of WhisperEngine.recognize_speech.
WhisperTry(audio_path, clip, env, files) ==
    WhisperTranscribe(ToWav(audio_path, clip, clip, env, files), env)

\* audio.set_channels(1).set_frame_rate(16000)
VoskConvert(clip) == [clip EXCEPT !.channels = 1, !.rate = 16000]

\* The number of non-empty reads of the loop over wf.readframes(4000).
Reads(frames) == (frames + FramesPerRead - 1) \div FramesPerRead

\* What the recognizer is given: the parameters of the waveform as it is
\* (a waveform that is not mono/16 bit/PCM is only logged; the recognizer
\* takes wf.getframerate()), and the number of reads.
Feed(clip, reads) ==
    IF reads > 0
    THEN [channels |-> clip.channels, rate |-> clip.rate, width |-> clip.width,
          reads |-> reads]
    ELSE NoFeed

\* wf = self.wave.open(audio_path, "rb"), the loop over the frames,
\* rec.FinalResult(), json.loads and result_dict.get("text", "").strip()
VoskRead(wav, env) ==
    [out   |-> IF wav.out.raised THEN wav.out
               ELSE IF wav.path \notin DOMAIN wav.files
               THEN Raise("FileNotFoundError")
               ELSE IF env.fault = "open" THEN Raise("wave.Error")
               ELSE IF env.fault = "decode" THEN Raise("RuntimeError")
               ELSE IF env.fault = "parse" THEN Raise("JSONDecodeError")
               ELSE Ret(Strip(env.heard)),
     files |-> wav.files,
     fed   |-> IF ~wav.out.raised /\ wav.path \in DOMAIN wav.files
                  /\ env.fault # "open"
               THEN Feed(wav.clip, Reads(wav.clip.frames)) ELSE NoFeed]

\* The try block of VoskEngine.recognize_speech.
VoskTry(audio_path, clip, env, files) ==
    VoskRead(ToWav(audio_path, clip, VoskConvert(clip), env, files), env)

RecognizeTry(engine, audio_path, clip, env, files) ==
    IF engine.kind = "vosk" THEN VoskTry(audio_path, clip, env, files)
    ELSE WhisperTry(audio_path, clip, env, files)

\* A handler that catches only the errors of the operating system.
RecognizeExceptNarrow(body) ==
    IF body.out.raised /\ body.out.exc \in {"OSError", "FileNotFoundError"}
    THEN [body EXCEPT !.out = Ret(FailureSentinel)]
    ELSE body

\* except Exception as e: logger.error(...); return the sentinel
RecognizeExcept(body) ==
    IF body.out.raised THEN [body EXCEPT !.out = Ret(FailureSentinel)] ELSE body

\* recognize_speech(audio_path) of the engine
RecognizeSpeech(engine, audio_path, clip, env, files) ==
    RecognizeExcept(RecognizeTry(engine, audio_path, clip, env, files))

\* SpeechRecognitionEngine.recognize: the alias of recognize_speech.
Recognize(engine, audio_path, clip, env, files) ==
    RecognizeSpeech(engine, audio_path, clip, env, files)

\* ------------------------------------------------------------------------
\* bot.py: handle_voice_message
\* ------------------------------------------------------------------------

Reply(kind, text) == [kind |-> kind, text |-> text]

\* The transport is down: every call of the Telegram API raises.
Down(env) == env.transport = "down"

\* TEMP_DIR / f"{voice.file_id}.ogg"
VoicePath(file_id) == <<"temp", "/", file_id, ".ogg">>

\* await voice_file.download_to_drive(path)
Download(files, path) == WriteFile(files, path, AudioContent("ogg"))

\* The first step of handle_voice_message that raises (0: none does):
\* 1 the progress reply, 2 get_file, 3 download_to_drive, 4 recognize,
\* 5 the reply with the result, 6 the deletion of the progress message.
VoiceFailedStep(env, recognized) ==
    CASE env.transport \in {"reply_progress", "down"} -> 1
      [] env.transport = "get_file" -> 2
      [] env.transport = "download" -> 3
      [] OTHER -> IF recognized.out.raised THEN 4
                  ELSE IF env.transport = "reply_result" THEN 5
                  ELSE IF env.transport = "delete_progress" THEN 6
                  ELSE 0

\* A step was reached and did not raise.
StepDone(failed, k) == failed = 0 \/ failed > k

\* if recognized_text: the transcription, else: "could not recognize"
ResultReply(text) ==
    IF text # <<>> THEN Reply("transcription", text)
    ELSE Reply("not_recognized", <<>>)

\* The replies sent and the files left behind when the step `failed` raised.
\* The temporary file is removed at the end of the try block only; a failure
\* of os.remove is logged.  The reply of the handler at lines 149-154 is a
\* call of the transport too: when it raises, the exception leaves the
\* handler.
VoiceOutcome(rec, failed, voice_ogg_path, env, files) ==
    [replies |->
         (IF StepDone(failed, 1) THEN <<Reply("progress", <<>>)>> ELSE <<>>)
         \o (IF StepDone(failed, 5) THEN <<ResultReply(rec.out.value)>> ELSE <<>>)
         \o (IF failed # 0 /\ ~Down(env) THEN <<Reply("error", <<>>)>> ELSE <<>>),
     failed |-> failed,
     raised |-> failed # 0 /\ Down(env),
     progressDeleted |-> StepDone(failed, 6),
     recognized |-> IF StepDone(failed, 3) THEN rec.out ELSE Raise("not run"),
     fed |-> IF StepDone(failed, 3) THEN rec.fed ELSE NoFeed,
     removeLogged |-> failed = 0 /\ env.removeFault,
     files |-> IF ~StepDone(failed, 3) THEN files
               ELSE IF failed = 0 /\ ~env.removeFault
               THEN RemoveFile(rec.files, voice_ogg_path)
               ELSE rec.files]

\* The handler from speech_engine.recognize on; rec is what it returned.
VoiceRecognized(rec, voice_ogg_path, env, files) ==
    VoiceOutcome(rec, VoiceFailedStep(env, rec), voice_ogg_path, env, files)

\* The handler once the path of the temporary file is known.
VoiceSaved(engine, voice_ogg_path, clip, env, files) ==
    VoiceRecognized(Recognize(engine, voice_ogg_path, clip, env,
                              Download(files, voice_ogg_path)),
                    voice_ogg_path, env, files)

\* handle_voice_message(update, context)
HandleVoiceMessage(engine, file_id, clip, env, files) ==
    VoiceSaved(engine, VoicePath(file_id), clip, env, files)

\* ------------------------------------------------------------------------
\* protocol_bot.py: ProtocolBot.process_voice_for_protocol
\* ------------------------------------------------------------------------

\* ConversationHandler.END
END == -1

\* WAITING_FOR_VOICE = 1
WAITING_FOR_VOICE == 1

\* The conversation handler holds no state for the user.
NoConversation == 0

\* if pdf_path and os.path.exists(pdf_path)
HasDocument(processed) ==
    /\ ~processed.out.raised
    /\ processed.out.value.path # None
    /\ processed.out.value.path \in DOMAIN processed.files

\* The first step of process_voice_for_protocol that raises (0: none does):
\* 1 the first reply, 2 get_file, 3 download_to_drive, 4 the status reply,
\* 5 recognize_speech, 6 the edit of the status, 7 process_voice_transcription,
\* 8 reply_document, 9 the reply with the text, 10 os.remove.
ProtocolFailedStep(env, recognized, processed, hasDocument) ==
    CASE env.transport \in {"reply_received", "down"} -> 1
      [] env.transport = "get_file" -> 2
      [] env.transport = "download" -> 3
      [] env.transport = "reply_status" -> 4
      [] OTHER -> IF recognized.out.raised THEN 5
                  ELSE IF env.transport = "edit_status" THEN 6
                  ELSE IF processed.out.raised THEN 7
                  ELSE IF env.transport = "reply_document" /\ hasDocument THEN 8
                  ELSE IF env.transport = "reply_result" THEN 9
                  ELSE IF env.removeFault THEN 10
                  ELSE 0

\* The files on disk when the handler ends: os.remove is the last statement
\* of the try block and has no handler of its own.
ProtocolFiles(rec, pvt, failed, voice_path, files) ==
    IF failed = 0 THEN RemoveFile(pvt.files, voice_path)
    ELSE IF failed >= 7 THEN pvt.files
    ELSE IF failed >= 5 THEN rec.files
    ELSE IF failed = 4 THEN Download(files, voice_path)
    ELSE files

\* The replies sent, the files left behind and the state returned to the
\* conversation handler when the step `failed` raised.  The reply of the
\* handler at lines 154-159 is a call of the transport too: when it raises,
\* the exception leaves the handler and no state is returned.
ProtocolOutcome(rec, pvt, hasDocument, failed, voice_path, env, files, dirs) ==
    [replies |->
         (IF StepDone(failed, 1) THEN <<Reply("received", <<>>)>> ELSE <<>>)
         \o (IF StepDone(failed, 4) THEN <<Reply("status", <<>>)>> ELSE <<>>)
         \o (IF StepDone(failed, 8) /\ hasDocument
             THEN <<Reply("document", pvt.out.value.path)>> ELSE <<>>)
         \o (IF StepDone(failed, 9)
             THEN (IF hasDocument
                   THEN <<Reply("protocol", pvt.out.value.text)>>
                   ELSE <<Reply("no_protocol", rec.out.value)>>)
             ELSE <<>>)
         \o (IF failed # 0 /\ ~Down(env) THEN <<Reply("error", <<>>)>> ELSE <<>>),
     failed |-> failed,
     recognized |-> IF StepDone(failed, 4) THEN rec.out ELSE Raise("not run"),
     processed |-> IF StepDone(failed, 6) \/ failed = 7 THEN pvt.out
                   ELSE Raise("not run"),
     transcribed |-> IF StepDone(failed, 6) \/ failed = 7 THEN rec.out.value
                     ELSE <<>>,
     returned |-> IF failed # 0 /\ Down(env) THEN Raise("NetworkError")
                  ELSE Ret(END),
     files |-> ProtocolFiles(rec, pvt, failed, voice_path, files),
     dirs |-> IF StepDone(failed, 6) \/ failed = 7 THEN pvt.dirs ELSE dirs]

\* The handler from the test of pdf_path on.
ProtocolChecked(rec, pvt, hasDocument, voice_path, env, files, dirs) ==
    ProtocolOutcome(rec, pvt, hasDocument,
                    ProtocolFailedStep(env, rec, pvt, hasDocument),
                    voice_path, env, files, dirs)

\* The handler from process_voice_transcription on; pvt is its outcome.
ProtocolProcessed(rec, pvt, voice_path, env, files, dirs) ==
    ProtocolChecked(rec, pvt, HasDocument(pvt), voice_path, env, files, dirs)

\* The handler from recognize_speech on; rec is what it returned.
ProtocolRecognized(rec, voice_path, env, files, dirs, t) ==
    ProtocolProcessed(rec,
                      ProcessVoiceTranscription(rec.out.value, <<"protocols">>,
                                                env, rec.files, dirs, t),
                      voice_path, env, files, dirs)

\* The handler once the path of the temporary file is known.
ProtocolSaved(engine, voice_path, clip, env, files, dirs, t) ==
    ProtocolRecognized(RecognizeSpeech(engine, voice_path, clip, env,
                                       Download(files, voice_path)),
                       voice_path, env, files, dirs, t)

\* process_voice_for_protocol(update, context)
ProcessVoiceForProtocol(engine, file_id, clip, env, files, dirs, t) ==
    ProtocolSaved(engine, VoicePath(file_id), clip, env, files, dirs, t)

\* ------------------------------------------------------------------------
\* protocol_bot.py: the handlers of _register_handlers and the conversation
\* ------------------------------------------------------------------------

\* start_protocol_generation(update, context)
StartProtocolGeneration(env) ==
    IF env.transport \in {"reply_start", "down"}
    THEN [returned |-> Raise("NetworkError"), replies |-> <<>>]
    ELSE [returned |-> Ret(WAITING_FOR_VOICE),
          replies |-> <<Reply("send_voice", <<>>)>>]

\* cancel_protocol(update, context)
CancelProtocol(env) ==
    IF env.transport \in {"reply_cancel", "down"}
    THEN [returned |-> Raise("NetworkError"), replies |-> <<>>]
    ELSE [returned |-> Ret(END), replies |-> <<Reply("cancelled", <<>>)>>]

NoCallback == "none"

\* CommandHandler("protocol", ...).check_update
IsProtocolCommand(kind) == kind = "/protocol"

\* filters.TEXT: a message with a text, the commands included.
IsText(kind) == kind \in {"text", "/protocol", "/cancel", "/start"}

\* ConversationHandler.check_update: the callback the conversation handler
\* would run for an update of the kind.  Without a conversation, the entry
\* points; in the state WAITING_FOR_VOICE, the handlers of the state in their
\* order and then the fallbacks.
ConversationCallback(state, kind) ==
    IF state = NoConversation
    THEN (IF IsProtocolCommand(kind) THEN "start_protocol_generation"
          ELSE NoCallback)
    ELSE IF kind = "voice" THEN "process_voice_for_protocol"
    ELSE IF IsText(kind) THEN "cancel_protocol"
    ELSE IF kind = "/cancel" THEN "cancel_protocol"
    ELSE NoCallback

\* The handlers of group 0 in the order of the add_handler calls.
Handlers == <<"command", "conversation">>

\* handler.check_update(update): what the handler would run, if anything.
CheckUpdate(handler, state, kind) ==
    IF handler = "command"
    THEN (IF IsProtocolCommand(kind) THEN "start_protocol_generation"
          ELSE NoCallback)
    ELSE ConversationCallback(state, kind)

NoRoute == [handler |-> "none", callback |-> NoCallback]

\* Application.process_update: within a group the first handler whose
\* check_update accepts the update handles it, and no other.
Route(state, kind) ==
    IF \E h \in DOMAIN Handlers : CheckUpdate(Handlers[h], state, kind) # NoCallback
    THEN [handler |-> Handlers[Least({h \in DOMAIN Handlers :
                          CheckUpdate(Handlers[h], state, kind) # NoCallback})],
          callback |-> CheckUpdate(Handlers[Least({h \in DOMAIN Handlers :
                          CheckUpdate(Handlers[h], state, kind) # NoCallback})],
                          state, kind)]
    ELSE NoRoute

\* The update handed to the conversation handler alone.
ConversationRoute(state, kind) ==
    IF ConversationCallback(state, kind) # NoCallback
    THEN [handler |-> "conversation", callback |-> ConversationCallback(state, kind)]
    ELSE NoRoute

\* ConversationHandler.handle_update: the state of the conversation after the
\* callback.  END removes the conversation; a callback that raises leaves
\* the state as it was.
AfterCallback(state, returned) ==
    IF returned.raised THEN state
    ELSE IF returned.value = END THEN NoConversation
    ELSE returned.value

\* The state after a handler took the update: a plain handler drops what
\* the callback returns.
AfterHandler(handler, state, returned) ==
    IF handler = "conversation" THEN AfterCallback(state, returned) ELSE state

\* The callback of a command or of a text message run in the environment.
RunCallback(callback, env) ==
    IF callback = "start_protocol_generation" THEN StartProtocolGeneration(env)
    ELSE IF callback = "cancel_protocol" THEN CancelProtocol(env)
    ELSE [returned |-> Ret(None), replies |-> <<>>]

\* ------------------------------------------------------------------------
\* bot.py: the event loop of the application and the steps of its handlers
\* ------------------------------------------------------------------------

\* A statement of a handler: an awaited call of the transport, at which the
\* coroutine is suspended and the loop runs on, or an ordinary call, which
\* keeps the thread of the loop until it returns.
Awaited(name) == [name |-> name, blocking |-> FALSE]

Blocking(name) == [name |-> name, blocking |-> TRUE]

\* handle_voice_message, statement by statement.
HandleVoiceMessageSteps ==
    <<Awaited("reply_progress"), Awaited("get_file"), Blocking("mkdir"),
      Awaited("download_to_drive"), Blocking("recognize"),
      Awaited("reply_result"), Awaited("delete_progress"), Blocking("remove")>>

\* process_voice_for_protocol, statement by statement; the call of
\* process_voice_transcription is the request to the service followed by
\* the rendering.
ProcessVoiceForProtocolSteps ==
    <<Awaited("reply_received"), Awaited("get_file"), Blocking("mkdir"),
      Awaited("download_to_drive"), Awaited("reply_status"),
      Blocking("recognize_speech"), Awaited("edit_status"),
      Blocking("generate_protocol_text"), Blocking("generate_pdf"),
      Awaited("reply_document"), Awaited("reply_text"), Blocking("remove")>>

\* handle_text_message and the command handlers: one reply.
HandleTextMessageSteps == <<Awaited("reply_text")>>

\* The statements of the handler that takes an update of the kind.
StepsOf(kind) ==
    CASE kind = "voice" -> HandleVoiceMessageSteps
      [] kind = "protocol_voice" -> ProcessVoiceForProtocolSteps
      [] OTHER -> HandleTextMessageSteps

\* The loop of Application.builder().token(...).build(), run by
\* run_polling(): the updates received and not yet handled, the update
\* whose handler runs, the statement it is at, whether the coroutine is
\* suspended at it, whether the thread is inside an ordinary call, and the
\* number of updates received.
IdleLoop ==
    [queue |-> <<>>, handler |-> "none", pc |-> 0, suspended |-> FALSE,
     busy |-> FALSE, received |-> 0]

\* The statement the running handler is at.
AtStep(l) == StepsOf(l.handler)[l.pc]

HandlerRuns(l) == l.handler # "none" /\ l.pc <= Len(StepsOf(l.handler))


\* ------------------------------------------------------------------------
\* Inputs of the model
\* ------------------------------------------------------------------------

\* The number of operations of one behaviour, and the last second of the clock.
MaxOps == 1

MaxClock == 1

\* "Vstrecha 15 maya obsuzhdenie byudzheta. Reshili uvelichit' byudzhet na
\* 10 procentov."
MeetingText ==
    <<"V", "s", "t", "r", "e", "ch", "a", " ", "1", "5", " ", "m", "a",
      "ya", " ", "o", "b", "s", "u", "zh", "d", "e", "n", "i", "e", " ",
      "b", "yu", "d", "zh", "e", "t", "a", ".", " ", "R", "e", "sh", "i",
      "l", "i", " ", "u", "v", "e", "l", "i", "ch", "i", "t", "soft", " ",
      "b", "yu", "d", "zh", "e", "t", " ", "n", "a", " ", "1", "0", " ",
      "p", "r", "o", "c", "e", "n", "t", "o", "v", ".">>

\* "Soveschanie po byudzhetu 3.04.2024. Da."
DottedText ==
    <<"S", "o", "v", "e", "sch", "a", "n", "i", "e", " ", "p", "o", " ",
      "b", "yu", "d", "zh", "e", "t", "u", " ", "3", ".", "0", "4", ".",
      "2", "0", "2", "4", ".", " ", "D", "a", ".">>

Transcriptions == {<<>>, MeetingText, DottedText}

\* A sentence of 13 characters that no pattern of the fallback matches.
Item(c) == <<"P", "u", "n", "k", "t", " ", "p", "l", "a", "n", "a", " ", c>>

\* A fragment of exactly 10 characters.
TenChars == <<"R", "o", "v", "n", "o", " ", "d", "e", "s", "ya">>

\* The sentences in a row, each ended by a period and followed by a space.
RECURSIVE Sentences(_)
Sentences(items) ==
    IF items = <<>> THEN <<>>
    ELSE items[1] \o <<".", " ">> \o Sentences(Tail(items))

\* Seven sentences of more than 10 characters.
SevenText ==
    Sentences(<<Item("a"), Item("b"), Item("v"), Item("g"), Item("d"),
                Item("e"), Item("zh")>>)

FiveText == Sentences(<<Item("a"), Item("b"), Item("v"), Item("g"), Item("d")>>)

\* Six sentences of more than 10 characters among shorter ones.
MixedText ==
    Sentences(<<<<"D", "a">>, Item("a"), <<"N", "e", "t">>, Item("b"), TenChars,
                Item("v"), Item("g"), Item("d"), Item("e")>>)

\* The text ends without a period.
UnterminatedText == Item("a") \o <<".", " ">> \o Item("b")

\* A text as the Vosk decoder gives it: lower case, no punctuation.
\* "vstrecha zavtra utrom"
VoskText ==
    <<"v", "s", "t", "r", "e", "ch", "a", " ", "z", "a", "v", "t", "r", "a",
      " ", "u", "t", "r", "o", "m">>

\* "U nas 3 voprosa. Vstrecha 15 maya."
EarlierNumberText ==
    <<"U", " ", "n", "a", "s", " ", "3", " ", "v", "o", "p", "r", "o", "s",
      "a", ".", " ", "V", "s", "t", "r", "e", "ch", "a", " ", "1", "5", " ",
      "m", "a", "ya", ".">>

\* "Byudzhet vyros na 10 procentov."
PercentText ==
    <<"B", "yu", "d", "zh", "e", "t", " ", "v", "y", "r", "o", "s", " ", "n",
      "a", " ", "1", "0", " ", "p", "r", "o", "c", "e", "n", "t", "o", "v", ".">>

\* "Reshili uvelichit' byudzhet."
NoDigitsText ==
    <<"R", "e", "sh", "i", "l", "i", " ", "u", "v", "e", "l", "i", "ch", "i",
      "t", "soft", " ", "b", "yu", "d", "zh", "e", "t", ".">>

\* "Sbor naznachen na 15 maya. Da."
LaterDateText ==
    <<"S", "b", "o", "r", " ", "n", "a", "z", "n", "a", "ch", "e", "n", " ",
      "n", "a", " ", "1", "5", " ", "m", "a", "ya", ".", " ", "D", "a", ".">>

\* The transcriptions given to the fallback.
FallbackTexts ==
    {<<>>, MeetingText, DottedText, SevenText, FiveText, MixedText,
     UnterminatedText, VoskText, EarlierNumberText, PercentText, NoDigitsText,
     LaterDateText}

\* What the recognizer makes of a clip: silence, a short word, a meeting.
Heard == {<<>>, <<" ", "D", "a", ".", " ">>, MeetingText}

\* The answers of the generative service to POST /api/generate.
HttpReply(status, json, field, text) ==
    [net |-> "ok", status |-> status, json |-> json, field |-> field, text |-> text]

NetFailure(kind) ==
    [net |-> kind, status |-> 0, json |-> "invalid", field |-> "missing", text |-> <<>>]

ServiceText == <<" ", "#", " ", "@protocol-of-the-service", "NL", "1", ".", " ", "@item", "NL">>

\* A text of whitespace only, and a text with whitespace inside only.
BlankText == <<" ", "NL", " ">>

CleanText == <<"#", " ", "@protocol-of-the-service", "NL", "NL", "@item">>

Replies ==
    {NetFailure("refused"), NetFailure("timeout"),
     HttpReply(200, "object", "text", ServiceText),
     HttpReply(200, "object", "text", <<>>),
     HttpReply(200, "object", "text", BlankText),
     HttpReply(200, "object", "text", CleanText),
     HttpReply(200, "object", "missing", <<>>),
     HttpReply(200, "object", "null", <<>>),
     HttpReply(200, "array", "missing", <<>>),
     HttpReply(200, "invalid", "missing", <<>>),
     HttpReply(500, "object", "text", ServiceText),
     HttpReply(404, "invalid", "missing", <<>>)}

FewReplies ==
    {NetFailure("refused"), HttpReply(200, "object", "text", ServiceText),
     HttpReply(500, "invalid", "missing", <<>>)}

\* The environment of rendering: which font files exist, whether the layout
\* raises, whether the storage refuses writes, whether makedirs fails.
RenderEnv(pr, pb, sr, sb, rf, sf, mk) ==
    [projRegular |-> pr, projBold |-> pb, sysRegular |-> sr, sysBold |-> sb,
     renderFault |-> rf, storageFault |-> sf, mkdirFault |-> mk]

NominalRender == RenderEnv(TRUE, TRUE, FALSE, FALSE, FALSE, FALSE, FALSE)

RenderEnvs ==
    {NominalRender,
     RenderEnv(FALSE, FALSE, TRUE, TRUE, FALSE, FALSE, FALSE),
     RenderEnv(FALSE, FALSE, FALSE, FALSE, FALSE, FALSE, FALSE),
     RenderEnv(TRUE, FALSE, FALSE, FALSE, FALSE, FALSE, FALSE),
     RenderEnv(FALSE, TRUE, TRUE, FALSE, FALSE, FALSE, FALSE),
     RenderEnv(TRUE, TRUE, FALSE, FALSE, TRUE, FALSE, FALSE),
     RenderEnv(TRUE, TRUE, FALSE, FALSE, TRUE, TRUE, FALSE),
     RenderEnv(TRUE, TRUE, FALSE, FALSE, FALSE, TRUE, FALSE),
     RenderEnv(FALSE, FALSE, FALSE, FALSE, FALSE, TRUE, FALSE),
     RenderEnv(TRUE, TRUE, FALSE, FALSE, FALSE, FALSE, TRUE)}

\* Destinations of generate_pdf, and output directories.
Destinations ==
    {<<"protocols", "/", "p1", ".pdf">>,
     <<"p2", ".pdf">>,
     <<"protocols", "/", "p3", ".doc">>,
     <<"protocols", "/", "p4">>,
     <<"out", ".pdf", "/", "p5", ".pdf">>,
     <<"missing", "/", "p6", ".pdf">>}

OutputDirs == {<<"protocols">>, <<"reports">>, <<"out", ".pdf">>}

\* The recognition of one clip: the step that fails, and the text heard.
RecogEnv(fault, heard) == [fault |-> fault, heard |-> heard]

RecogFaults == {"from_file", "export", "open", "decode", "parse"}

RecogEnvs ==
    {RecogEnv("none", h) : h \in Heard} \cup {RecogEnv(f, <<>>) : f \in RecogFaults}

AudioClip(channels, rate, width, frames) ==
    [channels |-> channels, rate |-> rate, width |-> width, frames |-> frames]

Clips ==
    {AudioClip(1, 16000, 2, 9000), AudioClip(2, 44100, 2, 9000),
     AudioClip(1, 8000, 1, 4000), AudioClip(1, 16000, 2, 0)}

\* The clips of voice messages.
VoiceClips == {AudioClip(1, 48000, 2, 9000), AudioClip(1, 48000, 2, 0)}

\* Audio files of a caller of the engines, and a path with no file.
UserAudio ==
    {<<"in", "/", "a", ".wav">>, <<"in", "/", "b", ".ogg">>,
     <<"in", "/", "c", ".WAV">>, <<"in", "/", "d">>}

AudioPaths == UserAudio \cup {<<"in", "/", "gone", ".ogg">>}

\* The calls of recognize_speech: every clip under every name with nothing
\* failing, and every failure under every name.
RecognizeInputs ==
    {<<q, c, RecogEnv("none", MeetingText)>> : q \in AudioPaths, c \in Clips}
    \cup {<<q, AudioClip(1, 16000, 2, 9000), e>> : q \in AudioPaths, e \in RecogEnvs}

FileIds == {"f1", "f2"}

\* The transport around a handler: the call that raises, and whether
\* os.remove fails.
TransportEnv(transport, removeFault) ==
    [transport |-> transport, removeFault |-> removeFault]

VoiceTransports ==
    {"reply_progress", "get_file", "download", "reply_result", "delete_progress"}

ProtocolTransports ==
    {"reply_received", "get_file", "download", "reply_status", "edit_status",
     "reply_document", "reply_result"}

\* Two records as one.
Merge(a, b) ==
    [k \in (DOMAIN a) \cup (DOMAIN b) |-> IF k \in DOMAIN b THEN b[k] ELSE a[k]]

NominalTransport == TransportEnv("none", FALSE)

\* The transport around the commands of the conversation.
CommandEnvs ==
    {TransportEnv(tr, FALSE) : tr \in {"none", "reply_start", "reply_cancel", "down"}}

\* The updates that are not voice messages: commands, a text, a photo.
MessageKinds == {"/protocol", "/cancel", "/start", "text", "photo"}

\* The runs of process_voice_transcription of one behaviour, their output
\* directories and their environments: the service answers or is down, the
\* fonts are there or missing.
MaxRuns == 2

RunDirs == {<<"protocols">>, <<"reports">>}

RunEnvs ==
    {Merge(NominalRender, [reply |-> r]) : r \in FewReplies}
    \cup {Merge(RenderEnv(FALSE, FALSE, FALSE, FALSE, FALSE, FALSE, FALSE),
                [reply |-> NetFailure("refused")])}

\* The updates of one behaviour of the loop and their kinds.
MaxUpdates == 3

UpdateKinds == {"voice", "protocol_voice", "text"}

\* The answers to GET /api/tags.
Probe(net, status, json, models, names, lib) ==
    [net |-> net, status |-> status, json |-> json, models |-> models,
     names |-> names, lib |-> lib]

ListProbe(names) == Probe("ok", 200, "object", "list", names, "2.27")

Probes ==
    {Probe("refused", 0, "invalid", "missing", <<>>, "2.27"),
     Probe("timeout", 0, "invalid", "missing", <<>>, "2.27"),
     Probe("ok", 500, "object", "list", <<"mistral">>, "2.27"),
     Probe("ok", 404, "invalid", "missing", <<>>, "2.27"),
     Probe("ok", 200, "invalid", "missing", <<>>, "2.27"),
     Probe("ok", 200, "invalid", "missing", <<>>, "2.26"),
     Probe("ok", 200, "array", "missing", <<>>, "2.27"),
     Probe("ok", 200, "object", "missing", <<>>, "2.27"),
     Probe("ok", 200, "object", "null", <<>>, "2.27"),
     Probe("ok", 200, "object", "strings", <<>>, "2.27"),
     ListProbe(<<>>),
     ListProbe(<<"llama3">>),
     ListProbe(<<"mistral", "llama3">>),
     ListProbe(<<"mistral">>),
     ListProbe(<<"phi3", "mistral">>),
     ListProbe(<<"mistral", NoName>>),
     ListProbe(<<NoName, "llama3">>)}

\* The model names a generator is constructed with.
ConfiguredModels == {"llama3", "gemma"}

OllamaUrl == "http://localhost:11434"

\* __init__(self, model_name="llama3", ollama_url="http://localhost:11434")
\* with the template of _load_prompt_template, the configured model listed.
DefaultGenerator ==
    [model_name |-> "llama3", ollama_url |-> "http://localhost:11434",
     prompt_template |-> <<"@prompt-head", "{transcription}", "@prompt-tail">>]

NominalRecog == RecogEnv("none", MeetingText)

NominalGenerate == Merge(NominalRender, [reply |-> NetFailure("refused")])

\* The environments of a voice message: one part off its nominal value.
VoiceEnvs ==
    {Merge(TransportEnv(tr, FALSE), NominalRecog) : tr \in VoiceTransports}
    \cup {Merge(NominalTransport, r) : r \in RecogEnvs}
    \cup {Merge(TransportEnv("none", TRUE), NominalRecog)}
    \cup {Merge(TransportEnv("down", FALSE), NominalRecog)}

GenerateEnvs ==
    {Merge(e, [reply |-> r]) : e \in {NominalRender}, r \in FewReplies}
    \cup {Merge(e, [reply |-> NetFailure("refused")]) : e \in RenderEnvs}

ProtocolEnvs ==
    {Merge(Merge(TransportEnv(tr, FALSE), NominalRecog), NominalGenerate) :
         tr \in ProtocolTransports}
    \cup {Merge(Merge(NominalTransport, r), NominalGenerate) : r \in RecogEnvs}
    \cup {Merge(Merge(TransportEnv("none", TRUE), NominalRecog), NominalGenerate)}
    \cup {Merge(Merge(NominalTransport, NominalRecog), g) : g \in GenerateEnvs}
    \cup {Merge(Merge(TransportEnv("down", FALSE), NominalRecog), NominalGenerate)}

\* The configuration of the process (config.py) and what construction finds.
Config(kind) == [engine |-> kind, whisperModel |-> "tiny", voskModelPath |-> "model"]

EngineKinds == {"whisper", "Whisper", "WHISPER", "vosk", "VOSK", "Sphinx", "sphinx", ""}

\* The values of SPEECH_RECOGNITION_ENGINE the process is started with.
ConfiguredKinds == {"whisper", "VOSK", "sphinx"}

StartEnv(loadFault, voskInstalled, modelPathExists) ==
    [loadFault |-> loadFault, voskInstalled |-> voskInstalled,
     modelPathExists |-> modelPathExists]

StartEnvs ==
    {StartEnv(FALSE, TRUE, TRUE), StartEnv(TRUE, TRUE, TRUE),
     StartEnv(FALSE, FALSE, TRUE), StartEnv(FALSE, TRUE, FALSE)}

\* ------------------------------------------------------------------------
\* State
\* ------------------------------------------------------------------------

VARIABLES
    cfg,      \* the configuration read at process start
    phase,    \* "boot", "serving" or "aborted"
    engine,   \* the speech engine of the process
    now,      \* the wall clock
    files,    \* the files on disk: path -> content
    dirs,     \* the directories on disk
    call,     \* the last operation: its inputs and what it returned
    ops,      \* the number of operations so far
    generator,  \* the ProtocolGenerator: model_name, ollama_url, prompt_template
    conv,     \* the state of the protocol conversation of the user
    loop      \* the event loop of the application: its queue and its handler

vars == <<cfg, phase, engine, now, files, dirs, call, ops, generator, conv, loop>>

NoCall == [op |-> "none"]

InitialFiles ==
    [q \in UserAudio |-> AudioContent(IF q[Len(q)] = ".ogg" THEN "ogg" ELSE "wav")]

InitialDirs == {<<"temp">>, <<"protocols">>, <<"in">>, <<"out", ".pdf">>}

Init ==
    /\ cfg \in {Config(k) : k \in ConfiguredKinds}
    /\ phase = "boot"
    /\ engine = NoEngine
    /\ now = 0
    /\ files = InitialFiles
    /\ dirs = InitialDirs
    /\ call = NoCall
    /\ ops = 0
    /\ generator = DefaultGenerator
    /\ conv = NoConversation
    /\ loop = IdleLoop

\* A second passes.
Tick ==
    /\ now < MaxClock
    /\ now' = now + 1
    /\ UNCHANGED <<loop, generator, conv, cfg, phase, engine, files, dirs, call, ops>>

\* The caller has taken the result of the last operation.
Done ==
    /\ call # NoCall
    /\ call' = NoCall
    /\ UNCHANGED <<loop, generator, conv, cfg, phase, engine, now, files, dirs, ops>>

\* No operation is in progress and one more fits in the behaviour.
Idle == call = NoCall /\ ops < MaxOps

\* ------------------------------------------------------------------------
\* Operations of the protocol generator
\* ------------------------------------------------------------------------

\* A text with every kind of line and 30 numbered lines.
LongProtocol ==
    <<"#", " ", "@title", "NL", "NL", "#", "#", " ", "@section", "NL",
      "#", "#", "#", " ", "@subsection", "NL", " ", "-", " ", "@bullet", "NL",
      "@paragraph", "NL">>
        \o Join([k \in 1..30 |-> <<"1", ".", " ", "@item">>], NL)
        \o NL

\* Texts handed to generate_pdf.
ProtocolTexts == {ServiceText, BasicProtocolFormatting(DottedText, 0), LongProtocol}

CallGenerateProtocolText(transcription, reply) ==
    /\ Idle
    /\ ops' = ops + 1
    /\ call' = [op |-> "generate_protocol_text",
                transcription |-> transcription,
                reply |-> reply,
                request |-> GenerateRequest(generator.model_name, transcription),
                at |-> now,
                out |-> GenerateProtocolText(transcription, reply, now)]
    /\ UNCHANGED <<loop, generator, conv, cfg, phase, engine, now, files, dirs>>

\* _basic_protocol_formatting(transcription) at the time of the clock.
CallBasicProtocolFormatting(transcription) ==
    /\ Idle
    /\ ops' = ops + 1
    /\ call' = [op |-> "_basic_protocol_formatting",
                transcription |-> transcription,
                at |-> now,
                out |-> Ret(BasicProtocolFormatting(transcription, now))]
    /\ UNCHANGED <<loop, generator, conv, cfg, phase, engine, now, files, dirs>>

\* The state after generate_pdf returned r; tried is the outcome of its try
\* block.
GeneratePdfCalled(protocol_text, output_path, env, r, tried) ==
    /\ Idle
    /\ ops' = ops + 1
    /\ files' = r.files
    /\ call' = [op |-> "generate_pdf",
                protocol_text |-> protocol_text,
                output_path |-> output_path,
                env |-> env,
                tried |-> tried.out,
                layout |-> IF r.out.value = output_path
                              /\ output_path \in DOMAIN r.files
                              /\ r.files[output_path].fmt = "pdf"
                           THEN PdfLayout(protocol_text) ELSE NoLayout,
                out |-> r.out]
    /\ UNCHANGED <<loop, generator, conv, cfg, phase, engine, now, dirs>>

CallGeneratePdf(protocol_text, output_path, env) ==
    GeneratePdfCalled(protocol_text, output_path, env,
        GeneratePdf(protocol_text, output_path, env, files, dirs),
        GeneratePdfTry(protocol_text, output_path, env, files, dirs))

\* The state after process_voice_transcription returned r.
ProcessVoiceTranscriptionCalled(transcription, output_dir, env, r) ==
    /\ Idle
    /\ ops' = ops + 1
    /\ files' = r.files
    /\ dirs' = r.dirs
    /\ call' = [op |-> "process_voice_transcription",
                transcription |-> transcription,
                output_dir |-> output_dir,
                env |-> env,
                at |-> now,
                out |-> r.out]
    /\ UNCHANGED <<loop, generator, conv, cfg, phase, engine, now>>

CallProcessVoiceTranscription(transcription, output_dir, env) ==
    ProcessVoiceTranscriptionCalled(transcription, output_dir, env,
        ProcessVoiceTranscription(transcription, output_dir, env, files, dirs, now))

GeneratorNext ==
    \/ Tick
    \/ Done
    \/ \E t \in Transcriptions, r \in Replies : CallGenerateProtocolText(t, r)
    \/ \E t \in ProtocolTexts, q \in Destinations, e \in RenderEnvs :
           CallGeneratePdf(t, q, e)
    \/ \E t \in Transcriptions, d \in OutputDirs, e \in GenerateEnvs :
           CallProcessVoiceTranscription(t, d, e)

\* The generator called directly.
SpecGenerator == Init /\ [][GeneratorNext]_vars

FallbackNext ==
    \/ Tick
    \/ Done
    \/ \E t \in FallbackTexts : CallBasicProtocolFormatting(t)

\* The rule-based fallback called directly.
SpecFallback == Init /\ [][FallbackNext]_vars

\* The state after one more run of process_voice_transcription ended with
\* r; the call keeps the files the run found.
RunEnded(transcription, output_dir, env, r) ==
    /\ call = NoCall
    /\ ops < MaxRuns
    /\ ops' = ops + 1
    /\ files' = r.files
    /\ dirs' = r.dirs
    /\ call' = [op |-> "process_voice_transcription",
                transcription |-> transcription,
                output_dir |-> output_dir,
                env |-> env,
                at |-> now,
                found |-> files,
                out |-> r.out]
    /\ UNCHANGED <<loop, generator, conv, cfg, phase, engine, now>>

\* process_voice_transcription(transcription, output_dir), one run after
\* another.
Run(transcription, output_dir, env) ==
    RunEnded(transcription, output_dir, env,
        ProcessVoiceTranscription(transcription, output_dir, env, files, dirs, now))

RunsNext ==
    \/ Tick
    \/ Done
    \/ \E t \in Transcriptions, d \in RunDirs, e \in RunEnvs : Run(t, d, e)

\* Several requests handled by one generator.
SpecRuns == Init /\ [][RunsNext]_vars

\* The loop reads an answer of getUpdates and queues the update.
Receive(kind) ==
    /\ ~loop.busy
    /\ loop.received < MaxUpdates
    /\ loop' = [loop EXCEPT !.queue = Append(@, kind), !.received = @ + 1]
    /\ UNCHANGED <<cfg, phase, engine, now, files, dirs, call, ops, generator, conv>>

\* The application takes the next update and starts its handler; it does so
\* only when the handler of the update before has ended
\* (concurrent_updates is not set, the handlers are registered blocking).
Fetch ==
    /\ ~loop.busy
    /\ loop.handler = "none"
    /\ loop.queue # <<>>
    /\ loop' = [loop EXCEPT !.queue = Tail(@), !.handler = Head(loop.queue),
                            !.pc = 1]
    /\ UNCHANGED <<cfg, phase, engine, now, files, dirs, call, ops, generator, conv>>

\* await ...: the coroutine is suspended, the loop runs on.
Await ==
    /\ HandlerRuns(loop)
    /\ ~AtStep(loop).blocking
    /\ ~loop.suspended
    /\ loop' = [loop EXCEPT !.suspended = TRUE]
    /\ UNCHANGED <<cfg, phase, engine, now, files, dirs, call, ops, generator, conv>>

\* The awaited call has ended and the loop resumes the coroutine.
Resume ==
    /\ loop.suspended
    /\ ~loop.busy
    /\ loop' = [loop EXCEPT !.suspended = FALSE, !.pc = @ + 1]
    /\ UNCHANGED <<cfg, phase, engine, now, files, dirs, call, ops, generator, conv>>

\* An ordinary call begins on the thread of the loop.
Block ==
    /\ HandlerRuns(loop)
    /\ AtStep(loop).blocking
    /\ ~loop.busy
    /\ loop' = [loop EXCEPT !.busy = TRUE]
    /\ UNCHANGED <<cfg, phase, engine, now, files, dirs, call, ops, generator, conv>>

\* The ordinary call returns.
Unblock ==
    /\ loop.busy
    /\ loop' = [loop EXCEPT !.busy = FALSE, !.pc = @ + 1]
    /\ UNCHANGED <<cfg, phase, engine, now, files, dirs, call, ops, generator, conv>>

\* The handler has run its last statement.
Finish ==
    /\ loop.handler # "none"
    /\ loop.pc > Len(StepsOf(loop.handler))
    /\ loop' = [loop EXCEPT !.handler = "none", !.pc = 0]
    /\ UNCHANGED <<cfg, phase, engine, now, files, dirs, call, ops, generator, conv>>

DispatchNext ==
    \/ \E k \in UpdateKinds : Receive(k)
    \/ Fetch
    \/ Await
    \/ Resume
    \/ Block
    \/ Unblock
    \/ Finish

\* The updates of the application, handled statement by statement.
SpecDispatch == Init /\ [][DispatchNext]_vars

\* The process before ProtocolBot.__init__ constructs its generator.
InitConstruction ==
    /\ cfg \in {Config(k) : k \in ConfiguredKinds}
    /\ phase = "boot"
    /\ engine = NoEngine
    /\ now = 0
    /\ files = InitialFiles
    /\ dirs = InitialDirs
    /\ call = NoCall
    /\ ops = 0
    /\ generator = NoGenerator
    /\ conv = NoConversation
    /\ loop = IdleLoop

\* The state after ProtocolGenerator(model_name, OllamaUrl) ended with r.
GeneratorConstructed(model_name, probe, r) ==
    /\ generator = NoGenerator
    /\ call = NoCall
    /\ generator' = r.self
    /\ call' = [op |-> "__init__", model_name |-> model_name,
                ollama_url |-> OllamaUrl, probe |-> probe,
                out |-> r.out, warned |-> r.warned]
    /\ UNCHANGED <<loop, cfg, phase, engine, now, files, dirs, ops, conv>>

\* self.protocol_generator = ProtocolGenerator(...)
Construct(model_name, probe) ==
    GeneratorConstructed(model_name, probe,
        ProtocolGeneratorInit(model_name, OllamaUrl, probe))

\* The operations of a constructed generator.
ConstructionNext ==
    \/ Tick
    \/ Done
    \/ \E m \in ConfiguredModels, p \in Probes : Construct(m, p)
    \/ /\ generator # NoGenerator
       /\ \E t \in Transcriptions, r \in FewReplies : CallGenerateProtocolText(t, r)
    \/ /\ generator # NoGenerator
       /\ \E t \in FallbackTexts : CallBasicProtocolFormatting(t)
    \/ /\ generator # NoGenerator
       /\ \E q \in Destinations : CallGeneratePdf(ServiceText, q, NominalRender)
    \/ /\ generator # NoGenerator
       /\ \E t \in Transcriptions, r \in FewReplies :
              CallProcessVoiceTranscription(t, <<"protocols">>,
                                            Merge(NominalRender, [reply |-> r]))

\* A generator is constructed, then called.
SpecConstruction == InitConstruction /\ [][ConstructionNext]_vars

\* ------------------------------------------------------------------------
\* Operations of the speech engines and of the bot
\* ------------------------------------------------------------------------

\* The state after the initialization at the top of bot.py ended with r.
Started(env, r) ==
    /\ phase = "boot"
    /\ call = NoCall
    /\ phase' = IF r.raised THEN "aborted" ELSE "serving"
    /\ engine' = IF r.raised THEN NoEngine ELSE r.value
    /\ call' = [op |-> "startup", env |-> env, out |-> r]
    /\ UNCHANGED <<loop, generator, conv, cfg, now, files, dirs, ops>>

\* bot.py is imported: the engine is constructed, or the import fails.
Startup(env) == Started(env, InitSpeechEngine(cfg, env))

\* The factory called directly.
CallGetSpeechRecognitionEngine(kind, env) ==
    /\ Idle
    /\ ops' = ops + 1
    /\ call' = [op |-> "get_speech_recognition_engine", kind |-> kind, env |-> env,
                out |-> GetSpeechRecognitionEngine(kind, "tiny", "model", env)]
    /\ UNCHANGED <<loop, generator, conv, cfg, phase, engine, now, files, dirs>>

\* The state after recognize_speech returned r; tried is the outcome of its
\* try block.
RecognizeCalled(alias, audio_path, clip, env, r, tried) ==
    /\ phase = "serving"
    /\ Idle
    /\ ops' = ops + 1
    /\ files' = r.files
    /\ call' = [op |-> "recognize_speech", engine |-> engine.kind, alias |-> alias,
                audio_path |-> audio_path, clip |-> clip, env |-> env,
                tried |-> tried.out,
                existed |-> audio_path \in DOMAIN files,
                fed |-> r.fed, out |-> r.out]
    /\ UNCHANGED <<loop, generator, conv, cfg, phase, engine, now, dirs>>

\* recognize_speech, or its alias recognize, called on the engine of the
\* process.
CallRecognize(alias, audio_path, clip, env) ==
    RecognizeCalled(alias, audio_path, clip, env,
        IF alias THEN Recognize(engine, audio_path, clip, env, files)
        ELSE RecognizeSpeech(engine, audio_path, clip, env, files),
        RecognizeTry(engine, audio_path, clip, env, files))

\* The state after handle_voice_message ended with r.
VoiceMessageHandled(file_id, clip, env, r) ==
    /\ phase = "serving"
    /\ Idle
    /\ ops' = ops + 1
    /\ files' = r.files
    /\ call' = [op |-> "handle_voice_message", engine |-> engine.kind,
                file_id |-> file_id, clip |-> clip, env |-> env,
                failed |-> r.failed, recognized |-> r.recognized,
                fed |-> r.fed, replies |-> r.replies,
                progressDeleted |-> r.progressDeleted,
                removeLogged |-> r.removeLogged, raised |-> r.raised]
    /\ UNCHANGED <<loop, generator, conv, cfg, phase, engine, now, dirs>>

\* A voice message outside a conversation: handle_voice_message.
VoiceMessage(file_id, clip, env) ==
    VoiceMessageHandled(file_id, clip, env,
        HandleVoiceMessage(engine, file_id, clip, env, files))

\* The state after process_voice_for_protocol ended with r.
ProtocolVoiceMessageHandled(file_id, clip, env, r) ==
    /\ phase = "serving"
    /\ Idle
    /\ ops' = ops + 1
    /\ files' = r.files
    /\ dirs' = r.dirs
    /\ call' = [op |-> "process_voice_for_protocol", engine |-> engine.kind,
                file_id |-> file_id, clip |-> clip, env |-> env, at |-> now,
                failed |-> r.failed, recognized |-> r.recognized,
                processed |-> r.processed, transcribed |-> r.transcribed,
                replies |-> r.replies, returned |-> r.returned,
                before |-> conv]
    /\ conv' = AfterCallback(conv, r.returned)
    /\ UNCHANGED <<loop, generator, cfg, phase, engine, now>>

\* A voice message in the protocol conversation: process_voice_for_protocol.
ProtocolVoiceMessage(file_id, clip, env) ==
    ProtocolVoiceMessageHandled(file_id, clip, env,
        ProcessVoiceForProtocol(engine, file_id, clip, env, files, dirs, now))

Next ==
    \/ Tick
    \/ Done
    \/ \E e \in StartEnvs : Startup(e)
    \/ \E k \in EngineKinds, e \in StartEnvs : CallGetSpeechRecognitionEngine(k, e)
    \/ \E a \in BOOLEAN, i \in RecognizeInputs : CallRecognize(a, i[1], i[2], i[3])
    \/ \E f \in FileIds, c \in VoiceClips, e \in VoiceEnvs : VoiceMessage(f, c, e)
    \/ \E f \in FileIds, c \in VoiceClips, e \in ProtocolEnvs : ProtocolVoiceMessage(f, c, e)

\* The bot and its speech engines.
Spec == Init /\ [][Next]_vars

\* ------------------------------------------------------------------------
\* Updates of the protocol conversation
\* ------------------------------------------------------------------------

\* The state after an update that is not a voice message went the route:
\* r is what the callback did.  These updates run no engine and no generator
\* and are not counted as operations.
Routed(kind, env, route, r) ==
    /\ phase = "serving"
    /\ Idle
    /\ conv' = AfterHandler(route.handler, conv, r.returned)
    /\ call' = [op |-> "update", kind |-> kind, env |-> env,
                handler |-> route.handler, callback |-> route.callback,
                before |-> conv, returned |-> r.returned, replies |-> r.replies]
    /\ UNCHANGED <<loop, generator, cfg, phase, engine, now, files, dirs, ops>>

Dispatched(kind, env, route) ==
    Routed(kind, env, route, RunCallback(route.callback, env))

\* A command, a text or a photo arrives at the application.
ApplicationMessage(kind, env) == Dispatched(kind, env, Route(conv, kind))

\* A voice message arrives at the application.
ApplicationVoice(file_id, clip, env) ==
    IF Route(conv, "voice").callback = "process_voice_for_protocol"
    THEN ProtocolVoiceMessage(file_id, clip, env)
    ELSE Dispatched("voice", env, Route(conv, "voice"))

ApplicationNext ==
    \/ Tick
    \/ Done
    \/ \E e \in StartEnvs : Startup(e)
    \/ \E k \in MessageKinds, e \in CommandEnvs : ApplicationMessage(k, e)
    \/ \E f \in FileIds, c \in VoiceClips, e \in ProtocolEnvs : ApplicationVoice(f, c, e)

\* The application with the handlers that _register_handlers adds.
SpecApplication == Init /\ [][ApplicationNext]_vars

\* A command, a text or a photo is handed to the conversation handler.
ConversationMessage(kind, env) == Dispatched(kind, env, ConversationRoute(conv, kind))

\* A voice message is handed to the conversation handler.
ConversationVoice(file_id, clip, env) ==
    IF ConversationCallback(conv, "voice") = "process_voice_for_protocol"
    THEN ProtocolVoiceMessage(file_id, clip, env)
    ELSE Dispatched("voice", env, ConversationRoute(conv, "voice"))

ConversationNext ==
    \/ Tick
    \/ Done
    \/ \E e \in StartEnvs : Startup(e)
    \/ \E k \in MessageKinds, e \in CommandEnvs : ConversationMessage(k, e)
    \/ \E f \in FileIds, c \in VoiceClips, e \in ProtocolEnvs : ConversationVoice(f, c, e)

\* The conversation handler of _register_handlers on its own.
SpecConversation == Init /\ [][ConversationNext]_vars

\* ------------------------------------------------------------------------
\* Properties
\* ------------------------------------------------------------------------

ProcessCalled == call.op = "process_voice_transcription"

\* C1: process_voice_transcription never lets an exception escape: whatever
\* step fails (the creation of the output directory, the generation of the
\* text, the rendering), the call returns a (path, text) pair.
C1_NeverRaises == ProcessCalled => ~call.out.raised

\* C1: the directory cannot be created and UnboundLocalError leaves the call.
C1_UnboundTextEscapes ==
    /\ ProcessCalled
    /\ call.env.mkdirFault
    /\ call.out.raised
    /\ call.out.exc = "UnboundLocalError"

\* A stage of the call failed: the directory could not be created, or neither
\* the document nor the text file could be written.
StageFailed ==
    \/ call.env.mkdirFault
    \/ call.env.storageFault

\* C2: when a stage of process_voice_transcription fails (the rendering and
\* its text fallback both failing included), the pair returned has no
\* document path and its text is an error message, not the generated
\* protocol text.
C2_StageFailureReported ==
    (ProcessCalled /\ StageFailed) =>
        /\ ~call.out.raised
        /\ call.out.value.path = None
        /\ call.out.value.text #
               GenerateProtocolText(call.transcription, call.env.reply, call.at).value

\* C2: neither file could be written and the pair carries the generated
\* protocol text.
C2_GeneratedTextReturned ==
    /\ ProcessCalled
    /\ call.env.storageFault
    /\ ~call.out.raised
    /\ call.out.value.path = None
    /\ call.out.value.text = BasicProtocolFormatting(call.transcription, call.at)

GenerateCalled == call.op = "generate_protocol_text"

\* The service did not answer with a usable body: no answer at all, a status
\* other than 200, or a body that is not an object with a text.
ServiceFailed(reply) ==
    \/ reply.net \in {"refused", "timeout"}
    \/ reply.status # 200
    \/ reply.json \in {"invalid", "array"}
    \/ reply.field = "null"

\* A document with a level-1 heading first, level-2 headings and numbered
\* lines.
Structured(doc) ==
    /\ doc # None
    /\ StartsAt(doc, 1, <<"#", " ">>)
    /\ \E i \in DOMAIN doc : StartsAt(doc, i, <<"NL", "#", "#", " ">>)
    /\ \E i \in DOMAIN doc : StartsAt(doc, i, <<"NL", "1", ".", " ">>)

\* C3: generate_protocol_text is total: when the service answers with a
\* status other than 200, times out, refuses the connection or sends a body
\* that cannot be used, the call raises nothing and returns exactly what
\* _basic_protocol_formatting makes of the transcription, a structured
\* document; the empty transcription included.
C3_FallbackOnServiceFailure ==
    (GenerateCalled /\ ServiceFailed(call.reply)) =>
        /\ ~call.out.raised
        /\ call.out.value = BasicProtocolFormatting(call.transcription, call.at)
        /\ Structured(call.out.value)

\* C3: the service sent a body that is not JSON for the empty transcription,
\* and the fallback document came back.
C3_UnparsableBodyForEmptyText ==
    /\ GenerateCalled
    /\ call.transcription = <<>>
    /\ call.reply.net = "ok"
    /\ call.reply.status = 200
    /\ call.reply.json = "invalid"
    /\ ~call.out.raised
    /\ call.out.value = BasicProtocolFormatting(<<>>, call.at)

RecognizeWasCalled == call.op = "recognize_speech"

\* C4: recognize_speech and its alias never raise, for both engines: a
\* failure of the conversion, of the opening of the waveform, of the decoding
\* or of the parsing of the result gives the failure sentinel, which is not
\* the empty string that recognized silence gives.
C4_RecognizeNeverRaises ==
    /\ FailureSentinel # <<>>
    /\ RecognizeWasCalled =>
           /\ ~call.out.raised
           /\ call.tried.raised => call.out.value = FailureSentinel
           /\ (~call.tried.raised /\ call.env.heard = <<>>) => call.out.value = <<>>

\* C4: the alias was called on the Vosk engine, the parsing of the result
\* failed, and the sentinel came back.
C4_VoskParseFailureGivesSentinel ==
    /\ RecognizeWasCalled
    /\ call.engine = "vosk"
    /\ call.alias
    /\ call.env.fault = "parse"
    /\ call.tried.raised
    /\ ~call.out.raised
    /\ call.out.value = FailureSentinel

ProtocolHandled == call.op = "process_voice_for_protocol"

\* A reply of the kind was sent.
Sent(kind) == \E i \in DOMAIN call.replies : call.replies[i].kind = kind

\* C5: when recognition returns the failure sentinel in the protocol
\* pipeline, the pipeline ends with no document path and a text about the
\* failed recognition; no exception escapes, and no protocol is generated or
\* rendered from the sentinel.
C5_SentinelStopsPipeline ==
    (ProtocolHandled /\ call.failed = 0 /\ call.recognized.value = FailureSentinel) =>
        /\ call.transcribed # FailureSentinel
        /\ ~Sent("document")
        /\ ~Sent("protocol")

\* C5: recognition returned the sentinel and a document made from it was
\* sent.
C5_DocumentFromSentinel ==
    /\ ProtocolHandled
    /\ call.recognized.value = FailureSentinel
    /\ call.transcribed = FailureSentinel
    /\ Sent("document")

VoiceHandled == call.op \in {"handle_voice_message", "process_voice_for_protocol"}

\* The download of the voice message was done when the handler ended.
Downloaded == call.failed = 0 \/ call.failed > 3

\* C6: once a voice message has been handled, by either handler, the
\* downloaded audio file and the .wav file made from it are gone, whether the
\* handling succeeded or a step after the download failed; a failed deletion
\* is only logged and leaves the replies as they are.
C6_TemporaryAudioRemoved ==
    (VoiceHandled /\ Downloaded) =>
        /\ call.env.removeFault => ~Sent("error")
        /\ ~call.env.removeFault =>
               /\ VoicePath(call.file_id) \notin DOMAIN files
               /\ WavPathOf(VoicePath(call.file_id)) \notin DOMAIN files

\* C6: handle_voice_message ended without a failure and the .wav file is
\* still there.
C6_WavLeftBehind ==
    /\ call.op = "handle_voice_message"
    /\ call.failed = 0
    /\ ~call.env.removeFault
    /\ VoicePath(call.file_id) \notin DOMAIN files
    /\ WavPathOf(VoicePath(call.file_id)) \in DOMAIN files

PdfCalled == call.op = "generate_pdf"

\* C7: with no font in the project nor in the system paths, generate_pdf
\* writes the text as it is to a text file with the directory and the base
\* name of the destination and another extension, and returns its path,
\* whatever the destination: one that does not end in .pdf, one with .pdf
\* elsewhere in it.
C7_TextFileBesideDestination ==
    (/\ PdfCalled
     /\ ~(call.env.sysRegular \/ call.env.projRegular)
     /\ ~call.env.storageFault
     /\ DirExists(dirs, DirName(call.output_path))) =>
        /\ ~call.out.raised
        /\ call.out.value # None
        /\ DirName(call.out.value) = DirName(call.output_path)
        /\ Stem(call.out.value) = Stem(call.output_path)
        /\ Ext(call.out.value) # Ext(call.output_path)
        /\ call.out.value \in DOMAIN files
        /\ files[call.out.value] = TxtContent(call.protocol_text)

\* C7: no font, a destination named *.doc, and the text went to the
\* destination itself.
C7_DestinationOverwritten ==
    /\ PdfCalled
    /\ ~(call.env.sysRegular \/ call.env.projRegular)
    /\ Ext(call.output_path) = <<".doc">>
    /\ ~call.out.raised
    /\ call.out.value = call.output_path
    /\ files[call.output_path] = TxtContent(call.protocol_text)

\* The rendering was tried, with both fonts there, and raised.
RenderingRaised ==
    /\ PdfCalled
    /\ (call.env.sysRegular \/ call.env.projRegular)
    /\ (call.env.sysBold \/ call.env.projBold)
    /\ call.tried.raised

\* C8: when the rendering raises, generate_pdf writes the text to the text
\* file and returns its path; that fails only on an I/O error of the storage,
\* and then the caller is told of a failure: the error is not turned into a
\* value returned.
C8_FallbackFailureReported ==
    RenderingRaised =>
        IF CanWrite(dirs, ReplacePdfByTxt(call.output_path), call.env)
        THEN /\ ~call.out.raised
             /\ call.out.value = ReplacePdfByTxt(call.output_path)
             /\ files[call.out.value] = TxtContent(call.protocol_text)
        ELSE call.out.raised

\* C8: the rendering raised, the storage took no text file either, and the
\* call returned None.
C8_FailureReturnedAsNone ==
    /\ RenderingRaised
    /\ call.env.storageFault
    /\ ~call.out.raised
    /\ call.out.value = None

\* C9: every waveform the Vosk engine feeds to the decoder is mono, 16 kHz,
\* 16 bit: a clip that is not, whatever the extension of its file, a .wav
\* file that is stereo or of another rate included, is normalized before a
\* frame is fed.
C9_VoskFedNormalized ==
    (RecognizeWasCalled /\ call.engine = "vosk" /\ call.fed.reads > 0) =>
        /\ call.fed.channels = 1
        /\ call.fed.rate = 16000
        /\ call.fed.width = 2

\* C9: a stereo 44.1 kHz file named *.wav was fed as it is.
C9_StereoWavFed ==
    /\ RecognizeWasCalled
    /\ call.engine = "vosk"
    /\ call.audio_path = <<"in", "/", "a", ".wav">>
    /\ call.fed.reads > 0
    /\ call.fed.channels = 2
    /\ call.fed.rate = 44100

WhisperKinds == {"whisper", "Whisper", "WHISPER"}

VoskKinds == {"vosk", "Vosk", "VOSK"}

\* The constructor of the engine of the kind fails in the environment.
ConstructorFails(kind, env) ==
    \/ kind \in WhisperKinds /\ env.loadFault
    \/ kind \in VoskKinds
           /\ (env.loadFault \/ ~env.voskInstalled \/ ~env.modelPathExists)

\* C10: the factory gives a Whisper engine for the kind "whisper" and a Vosk
\* engine for "vosk", whatever the case of the letters, and raises for every
\* other kind; an unknown kind or a constructor that fails ends the
\* initialization, and no handler runs without a constructed engine.
C10_FailFastSelection ==
    /\ call.op = "get_speech_recognition_engine" =>
           /\ (call.kind \in WhisperKinds /\ ~ConstructorFails(call.kind, call.env))
                  => (~call.out.raised /\ call.out.value.kind = "whisper")
           /\ (call.kind \in VoskKinds /\ ~ConstructorFails(call.kind, call.env))
                  => (~call.out.raised /\ call.out.value.kind = "vosk")
           /\ ConstructorFails(call.kind, call.env) => call.out.raised
           /\ call.kind \notin WhisperKinds \cup VoskKinds
                  => (call.out.raised /\ call.out.exc = "ValueError")
    /\ call.op = "startup" =>
           /\ (\/ cfg.engine \notin WhisperKinds \cup VoskKinds
               \/ ConstructorFails(cfg.engine, call.env))
                  => (call.out.raised /\ phase = "aborted" /\ engine = NoEngine)
           /\ ~call.out.raised => (phase = "serving" /\ engine = call.out.value)
    /\ phase = "boot" => engine = NoEngine
    /\ phase = "serving" =>
           \/ cfg.engine \in WhisperKinds /\ engine.kind = "whisper"
           \/ cfg.engine \in VoskKinds /\ engine.kind = "vosk"
    /\ (VoiceHandled \/ RecognizeWasCalled) =>
           (phase = "serving" /\ call.engine \in {"whisper", "vosk"})

\* C10: the process was configured with a kind that is not known and its
\* initialization ended with the error.
C10_UnknownKindAborts ==
    /\ call.op = "startup"
    /\ cfg.engine = "sphinx"
    /\ call.out.raised
    /\ call.out.exc = "ValueError"
    /\ phase = "aborted"

FallbackCalled == call.op = "_basic_protocol_formatting"

\* The position of the first occurrence of p in s, 0 when there is none.
IndexOf(s, p) ==
    IF \E i \in DOMAIN s : StartsAt(s, i, p)
    THEN Least({i \in DOMAIN s : StartsAt(s, i, p)}) ELSE 0

\* The text of a document between the first head and the first foot.
Section(doc, head, foot) ==
    Slice(doc, IndexOf(doc, head) + Len(head), IndexOf(doc, foot) - 1)

\* The elements of a sequence that are not empty, in order.
RECURSIVE NonEmpty(_)
NonEmpty(parts) ==
    IF parts = <<>> THEN <<>>
    ELSE (IF parts[1] # <<>> THEN <<parts[1]>> ELSE <<>>) \o NonEmpty(Tail(parts))

\* The lines of the agenda section of a fallback document.
AgendaEntries(doc) ==
    NonEmpty(Split(Section(doc,
                           <<"#", "#", " ", "@agenda", ":", "NL", "NL">>,
                           <<"NL", "NL", "#", "#", " ", "@discussion">>),
                   "NL"))

\* The places where a fragment of s ends: its periods and its end.
Cuts(s) == {i \in DOMAIN s : s[i] = "."} \cup {Len(s) + 1}

\* The fragment of s that starts after position a, trimmed.
FragmentAfter(s, a) ==
    Strip(Slice(s, a + 1, Least({b \in Cuts(s) : b > a}) - 1))

\* The starts of the fragments of s longer than 10 characters; with the
\* text after the last period, or with the fragments a period ends only.
LongStarts(s, withTail) ==
    {a \in {0} \cup {i \in DOMAIN s : s[i] = "."} :
        /\ Len(FragmentAfter(s, a)) > 10
        /\ withTail \/ Least({b \in Cuts(s) : b > a}) <= Len(s)}

\* The k-th element of a set of numbers, in increasing order.
Nth(S, k) == CHOOSE a \in S : Cardinality({b \in S : b < a}) = k - 1

\* The agenda of the document is made of the first five of the fragments
\* of s that start at the positions given, in order, numbered from 1.
AgendaIs(doc, s, starts) ==
    /\ Len(AgendaEntries(doc)) = Min(Cardinality(starts), 5)
    /\ \A k \in 1..Len(AgendaEntries(doc)) :
           AgendaEntries(doc)[k] =
               <<DigitSeq[k + 1], ".", " ">> \o FragmentAfter(s, Nth(starts, k))
                   \o <<".">>

\* C11 as stated: for a transcription with n sentences that end with a period
\* and are longer than 10 characters once trimmed, the fallback document has
\* exactly min(n, 5) numbered agenda lines: the first min(n, 5) such sentences
\* in their order, numbered from 1.
C11_TerminatedSentencesListed ==
    FallbackCalled =>
        AgendaIs(call.out.value, call.transcription,
                 LongStarts(call.transcription, FALSE))

\* C11 as amended: for a transcription with n fragments between periods (the
\* text after the last period counts as one) longer than 10 characters once
\* trimmed, the fallback document has exactly min(n, 5) numbered agenda
\* entries: the first min(n, 5) such fragments in their order, each followed
\* by a period, numbered from 1.
C11_FragmentsListed ==
    FallbackCalled =>
        AgendaIs(call.out.value, call.transcription,
                 LongStarts(call.transcription, TRUE))

\* C11: seven sentences of more than 10 characters gave five agenda lines,
\* the last one numbered 5.
C11_SevenGiveFive ==
    /\ FallbackCalled
    /\ call.transcription = SevenText
    /\ Len(AgendaEntries(call.out.value)) = 5
    /\ AgendaEntries(call.out.value)[5] = <<"5", ".", " ">> \o Item("d") \o <<".">>

\* The date in the heading of a fallback document.
DateField(doc) ==
    Section(doc, <<"#", " ", "@protocol-of-meeting-of", " ">>,
            <<"NL", "NL", "#", "#", " ", "@topic">>)

\* "15 maya"
FifteenthOfMay == <<"1", "5", " ", "m", "a", "ya">>

\* s holds p as a token: no letter or digit touches it.
HasToken(s, p) ==
    \E i \in DOMAIN s :
        /\ StartsAt(s, i, p)
        /\ i = 1 \/ s[i - 1] \notin Word
        /\ i + Len(p) > Len(s) \/ s[i + Len(p)] \notin Word

\* Names of months, in the genitive: "maya", "aprelya".
MonthNames == {<<"m", "a", "ya">>, <<"a", "p", "r", "e", "l", "ya">>}

\* A day and the name of a month start at position i of s.
DayMonthAt(s, i) ==
    \E nd \in 1..2, month \in MonthNames :
        /\ RunLen(s, i, Digit) >= nd
        /\ RunLen(s, i + nd, Space) >= 1
        /\ StartsAtNoCase(s, i + nd + RunLen(s, i + nd, Space), month)

\* s holds a date: a day and a month name, or d.m.yy(yy).
HasDatePattern(s) ==
    \E i \in DOMAIN s : DayMonthAt(s, i) \/ DateDottedLen(s, i) > 0

\* C12: for every transcription that holds the token "15 maya" the date of
\* the fallback document is "15 maya"; for every transcription that holds no
\* date pattern it is the date of the day.
C12_DateField ==
    FallbackCalled =>
        /\ HasToken(call.transcription, FifteenthOfMay)
               => DateField(call.out.value) = FifteenthOfMay
        /\ ~HasDatePattern(call.transcription)
               => DateField(call.out.value) = DateStr(call.at)

\* C12: a number and a word before the date were taken for the date.
C12_NumberTakenForDate ==
    /\ FallbackCalled
    /\ call.transcription = EarlierNumberText
    /\ HasToken(call.transcription, FifteenthOfMay)
    /\ DateField(call.out.value) = <<"3", " ", "v", "o", "p", "r", "o", "s", "a">>

\* The topic of a fallback document.
TopicField(doc) ==
    Section(doc, <<"NL", "NL", "#", "#", " ", "@topic", ":", " ">>,
            <<"NL", "NL", "#", "#", " ", "@agenda">>)

\* "obsuzhdenie"
Discussion == <<"o", "b", "s", "u", "zh", "d", "e", "n", "i", "e">>

\* The text of s after the first occurrence of the word, up to the next
\* period, trimmed.
ClauseFollowing(s, word) ==
    Strip(Slice(s, IndexOf(s, word) + Len(word),
                IndexOf(s, word) + Len(word) - 1
                    + RunLenNot(s, IndexOf(s, word) + Len(word), {"."})))

\* The service cannot be reached.
Unreachable(reply) == reply.net \in {"refused", "timeout"}

\* C13: for the transcription "Vstrecha 15 maya obsuzhdenie byudzheta.
\* Reshili uvelichit' byudzhet na 10 procentov." with the service unreachable,
\* the document has the date "15 maya" in its heading, the clause that follows
\* "obsuzhdenie" as its topic (not the default topic), and at most 2 agenda
\* entries.
C13_MeetingScenario ==
    (GenerateCalled /\ call.transcription = MeetingText /\ Unreachable(call.reply)) =>
        /\ ~call.out.raised
        /\ DateField(call.out.value) = FifteenthOfMay
        /\ TopicField(call.out.value) = ClauseFollowing(MeetingText, Discussion)
        /\ TopicField(call.out.value) # DefaultTopic
        /\ Len(AgendaEntries(call.out.value)) <= 2

\* C13: the scenario gave the date and two agenda entries, with the default
\* topic.
C13_DefaultTopicUsed ==
    /\ GenerateCalled
    /\ call.transcription = MeetingText
    /\ Unreachable(call.reply)
    /\ DateField(call.out.value) = FifteenthOfMay
    /\ ClauseFollowing(MeetingText, Discussion) = <<"b", "yu", "d", "zh", "e", "t", "a">>
    /\ TopicField(call.out.value) = DefaultTopic
    /\ Len(AgendaEntries(call.out.value)) = 2

\* generate_pdf wrote a PDF document.
PdfWritten == PdfCalled /\ call.layout.pages > 0

\* C14: in a PDF that generate_pdf produced every page carries a page-number
\* footer, however many pages the text needs, not the last page only.
C14_FooterOnEveryPage ==
    PdfWritten => \A page \in 1..call.layout.pages : call.layout.footerPage = page

\* C14: a text that fills two pages gave a document whose first pages carry
\* no page number; the only page number is on the page after the text.
C14_OnlyOnePageNumbered ==
    /\ PdfWritten
    /\ call.protocol_text = LongProtocol
    /\ call.layout.label = 2
    /\ call.layout.pages = 3
    /\ call.layout.footerPage = 3

UpdateCalled == call.op = "update"

\* C15: after the /protocol command the conversation awaits a voice message,
\* and the voice message that follows is routed to process_voice_for_protocol,
\* which ends the conversation; with the handlers that _register_handlers
\* adds (the plain /protocol handler, then the conversation handler with the
\* same entry command) the awaiting state is reached.
C15_ProtocolCommandAwaitsVoice ==
    /\ (UpdateCalled /\ call.kind = "/protocol" /\ call.before = NoConversation
            /\ ~call.returned.raised)
           => conv = WAITING_FOR_VOICE
    /\ (UpdateCalled /\ call.kind = "voice") => call.before # WAITING_FOR_VOICE
    /\ (ProtocolHandled /\ call.before = WAITING_FOR_VOICE /\ ~call.returned.raised)
           => conv = NoConversation

\* C15: the plain handler took the /protocol command, its callback returned
\* WAITING_FOR_VOICE, and there is no conversation.
C15_CommandTakenByPlainHandler ==
    /\ UpdateCalled
    /\ call.kind = "/protocol"
    /\ call.handler = "command"
    /\ call.returned = Ret(WAITING_FOR_VOICE)
    /\ conv = NoConversation

\* A callback of the conversation ran for the last update.
CallbackRan ==
    \/ ProtocolHandled
    \/ UpdateCalled /\ call.callback # NoCallback

\* C16: in the awaiting state a cancel command ends the conversation and
\* runs no recognition, generation or rendering, and every message that is
\* handled ends the conversation: process_voice_for_protocol returns END on
\* its success path and on its exception path, cancel_protocol always.
C16_AwaitingStateLeft ==
    [][(conv = WAITING_FOR_VOICE /\ call = NoCall /\ CallbackRan') =>
           /\ call'.returned = Ret(END)
           /\ conv' = NoConversation
           /\ (call'.op = "update" /\ call'.kind = "/cancel") =>
                  /\ call'.callback = "cancel_protocol"
                  /\ files' = files
                  /\ dirs' = dirs]_vars

\* C16: the reply of cancel_protocol raised and the conversation still
\* awaits a voice message.
C16_CancelRaisedStillAwaiting ==
    /\ UpdateCalled
    /\ call.kind = "/cancel"
    /\ call.before = WAITING_FOR_VOICE
    /\ call.callback = "cancel_protocol"
    /\ call.returned.raised
    /\ conv = WAITING_FOR_VOICE

\* handle_voice_message sent its reply with the result of a recognition
\* that returned the failure sentinel.
SentinelAnswered ==
    /\ call.op = "handle_voice_message"
    /\ StepDone(call.failed, 5)
    /\ call.recognized = Ret(FailureSentinel)

\* C17: when the engine returns its failure sentinel, handle_voice_message
\* answers with the "could not recognize speech" reply; it sends neither the
\* sentinel as the transcription nor the text of an exception.
C17_SentinelGivesNotRecognized ==
    SentinelAnswered =>
        /\ Sent("not_recognized")
        /\ \A i \in DOMAIN call.replies :
               call.replies[i] # Reply("transcription", FailureSentinel)
        /\ call.failed = 0 => ~Sent("error")

\* C17: the sentinel was sent to the user as the transcription.
C17_SentinelSentAsTranscription ==
    /\ SentinelAnswered
    /\ \E i \in DOMAIN call.replies :
           call.replies[i] = Reply("transcription", FailureSentinel)
    /\ ~Sent("not_recognized")

\* The service answered 200 with a JSON object whose response field is a
\* text or is absent.
Answered200(reply) ==
    /\ reply.net = "ok"
    /\ reply.status = 200
    /\ reply.json = "object"
    /\ reply.field \in {"text", "missing"}

\* The text of the response field; the empty text for an absent field.
FieldText(reply) == IF reply.field = "text" THEN reply.text ELSE <<>>

\* t is s without the whitespace at its two ends.
IsStripOf(t, s) ==
    /\ t = <<>> \/ (t[1] \notin Space /\ t[Len(t)] \notin Space)
    /\ \E i \in 0..Len(s) :
           /\ i + Len(t) <= Len(s)
           /\ \A k \in 1..Len(t) : s[i + k] = t[k]
           /\ \A k \in 1..i : s[k] \in Space
           /\ \A k \in (i + Len(t) + 1)..Len(s) : s[k] \in Space

\* C18: on a 200 answer generate_protocol_text returns exactly the text of
\* the response field, unchanged, whitespace at its ends included; the empty
\* text for an absent or empty field.
C18_ResponseReturnedUnchanged ==
    (GenerateCalled /\ Answered200(call.reply)) =>
        call.out = Ret(FieldText(call.reply))

\* C18 (amended): on a 200 answer whose body is a JSON object,
\* generate_protocol_text returns the text of the response field without
\* the whitespace at its two ends and with everything between kept; the
\* empty text for an absent, empty or blank field.
C18_ResponseReturnedStripped ==
    (GenerateCalled /\ Answered200(call.reply)) =>
        /\ ~call.out.raised
        /\ IsStripOf(call.out.value, FieldText(call.reply))

\* C18: the service sent a text with whitespace at both ends and the call
\* returned it without them.
C18_EndsOfServiceTextRemoved ==
    /\ GenerateCalled
    /\ Answered200(call.reply)
    /\ call.reply.text = ServiceText
    /\ call.out.value # ServiceText
    /\ call.out.value = SubSeq(ServiceText, 2, Len(ServiceText) - 1)

\* C19: every request of generate_protocol_text to POST /api/generate has a
\* body with the fields model, prompt, stream = false and options, the
\* options holding temperature and top_p, and is sent with a timeout of 60
\* seconds.
C19_RequestCarriesOptions ==
    GenerateCalled =>
        /\ call.request.method = "POST"
        /\ call.request.url = "/api/generate"
        /\ call.request.timeout = 60
        /\ {"model", "prompt", "stream", "options"} \subseteq DOMAIN call.request.payload
        /\ call.request.payload.stream = FALSE
        /\ {"temperature", "top_p"} \subseteq DOMAIN call.request.payload.options

\* C19: a request was sent whose body holds the model, the prompt and
\* stream = false and nothing else.
C19_RequestWithoutOptions ==
    /\ GenerateCalled
    /\ call.request.timeout = 60
    /\ call.request.payload.stream = FALSE
    /\ call.request.payload.model = generator.model_name
    /\ call.request.payload.prompt = Prompt(call.transcription)
    /\ DOMAIN call.request.payload = {"model", "prompt", "stream"}

ConstructCalled == call.op = "__init__"

\* The probe was answered 200 with an object whose models are a non-empty
\* list of entries that all have a name.
ModelsListed(probe) ==
    /\ probe.net = "ok"
    /\ probe.status = 200
    /\ probe.json = "object"
    /\ probe.models = "list"
    /\ probe.names # <<>>
    /\ NoName \notin Range(probe.names)

\* The model name the constructed object must hold.
ExpectedModel(model_name, probe) ==
    IF ModelsListed(probe) /\ model_name \notin Range(probe.names)
    THEN probe.names[1]
    ELSE model_name

\* C20: the construction of a ProtocolGenerator completes whatever the
\* probe does; model_name keeps the configured value when the probe fails,
\* answers with a status other than 200, with a body that cannot be used or
\* with no models, and when the configured name is listed; it becomes the
\* first listed name when models are listed and the configured one is not
\* among them.  Once constructed, no operation changes model_name,
\* ollama_url or prompt_template.
C20_ConstructionSurvivesProbe ==
    /\ [](ConstructCalled =>
             /\ ~call.out.raised
             /\ generator # NoGenerator
             /\ generator.model_name = ExpectedModel(call.model_name, call.probe)
             /\ generator.ollama_url = call.ollama_url
             /\ generator.prompt_template = LoadPromptTemplate)
    /\ [][generator # NoGenerator => generator' = generator]_vars

\* C20: llama3 was configured, the probe listed phi3 and mistral, and the
\* constructed generator holds phi3.
C20_FirstListedModelTaken ==
    /\ ConstructCalled
    /\ call.model_name = "llama3"
    /\ call.probe = ListProbe(<<"phi3", "mistral">>)
    /\ ~call.warned
    /\ generator.model_name = "phi3"

\* The replies that tell the user how the handling ended.
OutcomeKinds == {"transcription", "not_recognized", "error"}

OutcomeReplies == {i \in DOMAIN call.replies : call.replies[i].kind \in OutcomeKinds}

\* C23: for every voice message handle_voice_message handles, the user
\* receives exactly one outcome reply: the transcription, the
\* could-not-recognize message or the generic error message, never a result
\* and an error together.
C23_ExactlyOneOutcomeReply ==
    call.op = "handle_voice_message" => Cardinality(OutcomeReplies) = 1

\* C23: the transcription was sent, the deletion of the progress message
\* raised, and the error message was sent after it.
C23_ResultFollowedByError ==
    /\ call.op = "handle_voice_message"
    /\ call.failed = 6
    /\ Sent("transcription")
    /\ Sent("error")
    /\ Cardinality(OutcomeReplies) = 2

\* A run of process_voice_transcription returned the path of a document.
RunReturnedPath ==
    /\ call.op = "process_voice_transcription"
    /\ "found" \in DOMAIN call
    /\ ~call.out.raised
    /\ call.out.value.path # None

\* C22: two runs of process_voice_transcription with the same output
\* directory write two distinct files: the path a run returns was not there
\* before the run, so no run overwrites the document of an earlier one, two
\* runs of the same second included.
C22_RunsWriteDistinctFiles ==
    RunReturnedPath => call.out.value.path \notin DOMAIN call.found

\* C22: the second run of the same second returned the path of the first
\* run's document and replaced its content.
C22_SecondRunOverwroteFirst ==
    /\ RunReturnedPath
    /\ ops = 2
    /\ call.out.value.path = ProtocolPath(call.output_dir, call.at)
    /\ call.out.value.path \in DOMAIN call.found
    /\ call.found[call.out.value.path] # files[call.out.value.path]

\* An ordinary call of the handler keeps the thread while another update is
\* waiting in the queue.
WaitingBehindCall(names) ==
    /\ loop.busy
    /\ AtStep(loop).name \in names
    /\ loop.queue # <<>>

\* The calls of recognition, of the generative service and of rendering.
LongCalls ==
    {"recognize", "recognize_speech", "generate_protocol_text", "generate_pdf"}

\* C21: the calls of recognition, of the generative service and of
\* rendering do not run on the dispatch path: while one voice message is
\* recognized, generated or rendered, the handler of another update that is
\* waiting can start.
C21_NoHeadOfLineBlocking ==
    WaitingBehindCall(LongCalls) => ENABLED Fetch

\* C21: handle_voice_message is inside recognize, a text message waits in
\* the queue, and the only step the loop can take is the return of
\* recognize.
C21_TextWaitsBehindRecognition ==
    /\ WaitingBehindCall({"recognize"})
    /\ loop.handler = "voice"
    /\ Head(loop.queue) = "text"
    /\ ~ENABLED Fetch
    /\ ~ENABLED Resume
    /\ ENABLED Unblock

====
